---- MODULE Spec2Model ----
(***************************************************************************)
(* A model of smart_file: the inference gateway's streaming decoder        *)
(* (core/model_logic.py), the semantic index (core/explorer.py) and the    *)
(* two-phase chat orchestrator (core/chat_agent.py).                       *)
(*                                                                         *)
(* In the gateway, text is a sequence of Unicode code points and a byte     *)
(* string a sequence of byte values, so that decoding, splitting and       *)
(* prefix tests are computed the way the code computes them. In the        *)
(* orchestrator, text is a sequence of words (tags, blanks, JSON           *)
(* documents and plain words).                                             *)
(***************************************************************************)
EXTENDS Integers, Sequences, FiniteSets, TLC

VARIABLES
    \* ---- gateway: one call of call_model_stream, OpenAI-compatible family
    gwStream,      \* the bytes of the HTTP response body
    gwChunks,      \* the chunks response.iter_content has still to deliver
    gwBuffer,      \* buffer: the decoded text not yet consumed
    gwOut,         \* the fragments yielded so far
    gwPc,          \* "recv" (for chunk in ...), "events" (while '\n\n' in buffer), "done"
    gwDoneSeen,    \* history: a data line with payload [DONE] has been decoded
    gwFamily,      \* the wire format the decoder reads: "openai", "cohere", "huggingface"
    gwFrames,      \* history: the frames the response body was built from
    \* ---- semantic index: one SemanticExplorer and the filesystem it walks
    fsGone,        \* the filesystem entries deleted since the start
    store,         \* self.collection: the identities stored (metadata: Meta)
    is_cancelled,  \* self.is_cancelled
    bPc,           \* per index_directory generator: "idle", "scan", "loop", "batch"
    bRoot,         \* its root_path
    bPaths,        \* its all_paths
    bI,            \* its loop variable i: the offset of the next batch
    bOut,          \* the statuses it has yielded in this run
    bClean,        \* history: no entry was deleted and no clear ran since its scan
    baseline,      \* history: the first clean complete build and the count it left
    runs,          \* the number of index_directory calls made
    srch,          \* the search call that has just returned: its arguments and result
    cancelSeen,    \* history: the builds that were in progress when cancel_indexing was called
    clr,           \* the clear_index call that has just returned: the count before, the value returned
    \* ---- orchestrator: one turn of get_response_stream
    agPc,          \* the position of the generator
    agUser,        \* user_input
    agStream,      \* the chunks the current gateway call has still to deliver
    agResp,        \* llm_response_str
    agQuery,       \* search_query
    agFiltersStr,  \* filters_str: [found, value]
    agFilters,     \* metadata_filters
    agFull,        \* full_response
    agLog,         \* history: the emissions, gateway calls, chunks received and
                   \* search calls of the turn, in order
    \* ---- call front: the arguments and the resolution of one call_model_stream
    cProvider,     \* provider
    cModel,        \* model_display_name
    cOverride,     \* api_key_override
    cEnv,          \* os.environ: the variables the credential lookup reads
    cPc,           \* "start", "request", "streaming", "returned"
    cKey,          \* api_key
    cErr,          \* the 'Error:' items yielded so far
    cReqs          \* history: the number of requests.post calls

gwVars == <<gwStream, gwChunks, gwBuffer, gwOut, gwPc, gwDoneSeen, gwFamily, gwFrames>>

idxVars == <<fsGone, store, is_cancelled, bPc, bRoot, bPaths, bI, bOut, bClean, baseline, runs, srch, clr, cancelSeen>>

agVars == <<agPc, agUser, agStream, agResp, agQuery, agFiltersStr, agFilters, agFull, agLog>>

callVars == <<cProvider, cModel, cOverride, cEnv, cPc, cKey, cErr, cReqs>>

vars == <<gwVars, idxVars, agVars, callVars>>

\* What the steps of one subsystem leave alone.
notGw == <<idxVars, agVars, callVars>>

notIdx == <<gwVars, agVars, callVars>>

notAg == <<gwVars, idxVars, callVars>>

notCall == <<idxVars, agVars>>

(***************************************************************************)
(* Bounds of the model.                                                    *)
(***************************************************************************)
\* The number of lines a modelled response body is built from.
MaxPieces == 2

\* The number of files of the large directory "big": more than one batch.
LargeFiles == 130

\* The number of index_directory calls of one run of the model.
MaxBuilds == 2

\* The number of requests.post calls of one run of the model.
MaxRequests == 2

\* The number of frames a modelled response body of a decoder is built from.
MaxFrames == 2

(***************************************************************************)
(* Generic text helpers (Python str methods used by the decoders).         *)
(***************************************************************************)
MinOf(S) == CHOOSE x \in S : \A y \in S : x <= y

MaxOf(S) == CHOOSE x \in S : \A y \in S : x >= y

\* str.startswith
StartsWith(text, prefix) ==
    /\ Len(text) >= Len(prefix)
    /\ SubSeq(text, 1, Len(prefix)) = prefix

\* The code points str.strip() removes and str.isspace() accepts.
IsSpace(c) == c \in {9, 10, 11, 12, 13, 28, 29, 30, 31, 32, 133, 160}

\* str.strip()
Strip(text) ==
    LET keep == {i \in 1..Len(text) : ~IsSpace(text[i])}
    IN  IF keep = {} THEN <<>> ELSE SubSeq(text, MinOf(keep), MaxOf(keep))

\* The line boundaries of str.splitlines().
IsLineBreak(c) == c \in {10, 11, 12, 13, 28, 29, 30, 133, 8232, 8233}

\* str.splitlines(): the lines of text, without their line breaks; "\r\n" is one
\* break, and a trailing break opens no empty last line.
RECURSIVE SplitLinesFrom(_, _)
SplitLinesFrom(text, start) ==
    IF start > Len(text) THEN <<>>
    ELSE LET brk == {i \in start..Len(text) : IsLineBreak(text[i])}
         IN  IF brk = {} THEN <<SubSeq(text, start, Len(text))>>
             ELSE LET p == MinOf(brk)
                      q == IF text[p] = 13 /\ p < Len(text) /\ text[p + 1] = 10
                           THEN p + 1 ELSE p
                  IN  <<SubSeq(text, start, p - 1)>> \o SplitLinesFrom(text, q + 1)

SplitLines(text) == SplitLinesFrom(text, 1)

\* A UTF-8 lead byte of a two-byte sequence, and a continuation byte.
IsLead2(b) == b >= 194 /\ b <= 223

IsContinuation(b) == b >= 128 /\ b <= 191

\* bytes.decode('utf-8', errors='replace') for byte strings made of one- and
\* two-byte sequences: a lead byte without its continuation byte, and a
\* continuation byte without its lead, each decode to U+FFFD. A continuation
\* byte consumed by the lead before it yields no code point of its own (0 here,
\* then dropped).
Utf8DecodeReplace(bs) ==
    LET n == Len(bs)
        point(i) ==
            IF bs[i] < 128 THEN bs[i]
            ELSE IF IsLead2(bs[i]) /\ i < n /\ IsContinuation(bs[i + 1])
                 THEN (bs[i] - 192) * 64 + (bs[i + 1] - 128)
            ELSE IF IsContinuation(bs[i]) /\ i > 1 /\ IsLead2(bs[i - 1]) THEN 0
            ELSE 65533
        IsPoint(c) == c # 0
    IN  SelectSeq([i \in 1..n |-> point(i)], IsPoint)

(***************************************************************************)
(* The OpenAI-compatible wire format.                                      *)
(***************************************************************************)
\* 'data: '
DataPrefix == <<100, 97, 116, 97, 58, 32>>

\* '[DONE]'
DoneToken == <<91, 68, 79, 78, 69, 93>>

\* '{"choices":[{"delta":{"content":"'
DeltaOpen ==
    <<123, 34, 99, 104, 111, 105, 99, 101, 115, 34, 58, 91, 123, 34, 100, 101,
      108, 116, 97, 34, 58, 123, 34, 99, 111, 110, 116, 101, 110, 116, 34, 58, 34>>

\* '"}}]}'
DeltaClose == <<34, 125, 125, 93, 125>>

\* A code point that may stand unescaped inside a JSON string.
IsPlainJsonChar(c) == c >= 32 /\ c # 34 /\ c # 92

\* json.loads(data_json) followed by data["choices"][0]["delta"]["content"], for
\* the payloads of the modelled streams: the text of the content field of a
\* compact delta object, and the empty text for a payload json.loads rejects
\* (JSONDecodeError, logged and skipped) or that carries no content.
DeltaContent(payload) ==
    LET n == Len(payload)
        lo == Len(DeltaOpen)
        lc == Len(DeltaClose)
    IN  IF /\ n >= lo + lc
           /\ SubSeq(payload, 1, lo) = DeltaOpen
           /\ SubSeq(payload, n - lc + 1, n) = DeltaClose
           /\ \A i \in (lo + 1)..(n - lc) : IsPlainJsonChar(payload[i])
        THEN SubSeq(payload, lo + 1, n - lc)
        ELSE <<>>

\* line[len('data: '):].strip() of a data line
DataPayload(line) == Strip(SubSeq(line, Len(DataPrefix) + 1, Len(line)))

\* OnDone with a fault: the content accumulated so far is yielded before the
\* generator returns.
OnDoneYields(content_chunk) == content_chunk

\* What is left to yield of content_chunk when a [DONE] payload returns from
\* the generator: nothing.
OnDone(content_chunk) == <<>>

\* The for loop over the lines of one event: content_chunk accumulated from the
\* data lines, and whether a [DONE] payload returned from the generator.
RECURSIVE EventLoop(_, _, _)
EventLoop(lines, k, content) ==
    IF k > Len(lines) THEN [content |-> content, done |-> FALSE]
    ELSE IF ~StartsWith(lines[k], DataPrefix) THEN EventLoop(lines, k + 1, content)
    ELSE IF DataPayload(lines[k]) = DoneToken THEN [content |-> OnDone(content), done |-> TRUE]
    ELSE EventLoop(lines, k + 1, content \o DeltaContent(DataPayload(lines[k])))

\* OpenAIEvent with a fault: [DONE] leaves the loop over the lines only.
OpenAIEventDoneIgnored(event_str) ==
    IF Strip(event_str) = <<>> THEN [content |-> <<>>, done |-> FALSE]
    ELSE [content |-> EventLoop(SplitLines(event_str), 1, <<>>).content, done |-> FALSE]

\* The body of the while loop for one event_str.
OpenAIEvent(event_str) ==
    IF Strip(event_str) = <<>> THEN [content |-> <<>>, done |-> FALSE]
    ELSE EventLoop(SplitLines(event_str), 1, <<>>)

\* The positions of '\n\n' in the buffer.
DelimPositions(buffer) ==
    {i \in 1..(Len(buffer) - 1) : buffer[i] = 10 /\ buffer[i + 1] = 10}

\* '\n\n' in buffer
HasEvent(buffer) == DelimPositions(buffer) # {}

\* buffer.split('\n\n', 1)
FirstEvent(buffer) == SubSeq(buffer, 1, MinOf(DelimPositions(buffer)) - 1)

RestAfterEvent(buffer) == SubSeq(buffer, MinOf(DelimPositions(buffer)) + 2, Len(buffer))

\* Whether the loop over an event's lines reaches a data line with payload [DONE].
RECURSIVE ReachesDone(_, _)
ReachesDone(lines, k) ==
    /\ k <= Len(lines)
    /\ \/ StartsWith(lines[k], DataPrefix) /\ DataPayload(lines[k]) = DoneToken
       \/ ReachesDone(lines, k + 1)

(***************************************************************************)
(* The modelled response bodies: up to MaxPieces lines, each ended by one  *)
(* newline (the event goes on) or by a blank line (the event ends), or     *)
(* left unterminated.                                                      *)
(***************************************************************************)
DataLine(content) == DataPrefix \o DeltaOpen \o content \o DeltaClose

WireLines ==
    { DataLine(<<97>>),               \* content "a"
      DataLine(<<195, 169>>),         \* content U+00E9, two bytes in UTF-8
      DataPrefix \o DoneToken,        \* data: [DONE]
      DataPrefix \o <<123>> }         \* data: {   (not JSON)

WirePieces ==
    {l \o <<10, 10>> : l \in WireLines} \cup {DataLine(<<97>>) \o <<10>>, DataLine(<<98>>)}

RECURSIVE Bodies(_)
Bodies(n) ==
    IF n = 0 THEN {<<>>}
    ELSE LET shorter == Bodies(n - 1)
         IN  shorter \cup {b \o p : b \in shorter, p \in WirePieces}

\* response.iter_content(chunk_size=None): the body as one chunk, or as two
\* chunks split at byte offset cut; no chunk is empty.
ChunksOf(body, cut) ==
    IF cut = 0 \/ cut >= Len(body)
    THEN (IF body = <<>> THEN <<>> ELSE <<body>>)
    ELSE <<SubSeq(body, 1, cut), SubSeq(body, cut + 1, Len(body))>>

(***************************************************************************)
(* The streaming loop, run to its end over a list of chunks: the fragments *)
(* call_model_stream yields.                                               *)
(***************************************************************************)
RECURSIVE DrainEvents(_, _)
DrainEvents(buffer, out) ==
    IF ~HasEvent(buffer) THEN [buffer |-> buffer, out |-> out, done |-> FALSE]
    ELSE LET r == OpenAIEvent(FirstEvent(buffer))
             yielded == IF r.content # <<>> THEN Append(out, r.content) ELSE out
         IN  IF r.done THEN [buffer |-> RestAfterEvent(buffer), out |-> yielded, done |-> TRUE]
             ELSE DrainEvents(RestAfterEvent(buffer), yielded)

RECURSIVE StreamFragments(_, _, _)
StreamFragments(chunks, buffer, out) ==
    IF chunks = <<>> THEN out
    ELSE LET d == DrainEvents(buffer \o Utf8DecodeReplace(Head(chunks)), out)
         IN  IF d.done THEN d.out ELSE StreamFragments(Tail(chunks), d.buffer, d.out)

(***************************************************************************)
(* Gateway actions.                                                        *)
(***************************************************************************)
GwInit ==
    /\ gwStream \in Bodies(MaxPieces)
    /\ \E cut \in 0..Len(gwStream) : gwChunks = ChunksOf(gwStream, cut)
    /\ gwBuffer = <<>>
    /\ gwOut = <<>>
    /\ gwPc = "recv"
    /\ gwDoneSeen = FALSE
    /\ gwFamily = "openai"
    /\ gwFrames = <<>>

\* for chunk in response.iter_content(...): buffer += chunk.decode(...)
GwReceive ==
    /\ gwPc = "recv"
    /\ gwChunks # <<>>
    /\ gwBuffer' = gwBuffer \o Utf8DecodeReplace(Head(gwChunks))
    /\ gwChunks' = Tail(gwChunks)
    /\ gwPc' = "events"
    /\ UNCHANGED <<gwStream, gwOut, gwDoneSeen, gwFamily, gwFrames>>
    /\ UNCHANGED notGw

\* One turn of while '\n\n' in buffer: split off an event and decode it.
GwEvent ==
    /\ gwPc = "events"
    /\ gwFamily = "openai"
    /\ HasEvent(gwBuffer)
    /\ LET ev == FirstEvent(gwBuffer)
           r == OpenAIEvent(ev)
       IN  /\ gwBuffer' = RestAfterEvent(gwBuffer)
           /\ gwDoneSeen' = (gwDoneSeen \/
                              (Strip(ev) # <<>> /\ ReachesDone(SplitLines(ev), 1)))
           /\ gwPc' = IF r.done THEN "done" ELSE "events"
           /\ gwOut' = IF r.content # <<>> THEN Append(gwOut, r.content) ELSE gwOut
    /\ UNCHANGED <<gwStream, gwChunks, gwFamily, gwFrames>>
    /\ UNCHANGED notGw

\* The condition of the while loop: '\n\n' in buffer, or '\n' in buffer in
\* the huggingface branch.
Delimited(family, buffer) ==
    IF family \in {"huggingface", "google"} THEN \E i \in 1..Len(buffer) : buffer[i] = 10
    ELSE HasEvent(buffer)

\* The while loop ends: no complete event is left in the buffer.
GwAwait ==
    /\ gwPc = "events"
    /\ ~Delimited(gwFamily, gwBuffer)
    /\ gwPc' = "recv"
    /\ UNCHANGED <<gwStream, gwChunks, gwBuffer, gwOut, gwDoneSeen, gwFamily, gwFrames>>
    /\ UNCHANGED notGw

\* Residue with a fault: what is left in the buffer is yielded.
ResidueYielded(buffer) == IF Strip(buffer) # <<>> THEN <<Strip(buffer)>> ELSE <<>>

\* What the statement after the for loop yields of the buffer: it is logged
\* (or not looked at, in the google branch), nothing is yielded.
Residue(buffer) == <<>>

\* The response ends: the for loop is exhausted and the generator returns.
GwEnd ==
    /\ gwPc = "recv"
    /\ gwChunks = <<>>
    /\ gwPc' = "done"
    /\ gwOut' = gwOut \o Residue(gwBuffer)
    /\ UNCHANGED <<gwStream, gwChunks, gwBuffer, gwDoneSeen, gwFamily, gwFrames>>
    /\ UNCHANGED notGw

(***************************************************************************)
(* The Typed-SSE (cohere) and the Legacy-SSE (huggingface) decoders.       *)
(* The result of decoding one frame: the items yielded, whether the        *)
(* generator returned, whether an exception left the try statement.        *)
(***************************************************************************)
Decoded(emit, done, error) == [emit |-> emit, done |-> done, error |-> error]

\* 'event:' and 'data:'
EventColon ==
    <<101, 118, 101, 110, 116, 58>>

DataColon ==
    <<100, 97, 116, 97, 58>>

\* 'text-generation' and 'stream-end'
TextGeneration ==
    <<116, 101, 120, 116, 45, 103, 101, 110, 101, 114, 97, 116, 105, 111,
      110>>

StreamEnd ==
    <<115, 116, 114, 101, 97, 109, 45, 101, 110, 100>>

\* '{"text":"' and '"}'
TextOpen ==
    <<123, 34, 116, 101, 120, 116, 34, 58, 34>>

TextClose ==
    <<34, 125>>

\* '{"token":{"text":"' and '"}}'
TokenOpen ==
    <<123, 34, 116, 111, 107, 101, 110, 34, 58, 123, 34, 116, 101, 120, 116,
      34, 58, 34>>

TokenClose ==
    <<34, 125, 125>>

\* '{}' and '5'
EmptyObject == <<123, 125>>

FiveDigit == <<53>>

\* json.loads(data_json_str) for the payloads of the modelled streams: an
\* object with a text (under open ... close), the empty object, a number, or
\* JSONDecodeError (ok is FALSE).
JsonPayload(payload, open, close) ==
    LET n == Len(payload)
        lo == Len(open)
        lc == Len(close)
    IN  IF /\ n >= lo + lc
           /\ SubSeq(payload, 1, lo) = open
           /\ SubSeq(payload, n - lc + 1, n) = close
           /\ \A i \in (lo + 1)..(n - lc) : IsPlainJsonChar(payload[i])
        THEN [ok |-> TRUE, object |-> TRUE, has_text |-> TRUE,
              text |-> SubSeq(payload, lo + 1, n - lc)]
        ELSE IF payload = EmptyObject
        THEN [ok |-> TRUE, object |-> TRUE, has_text |-> FALSE, text |-> <<>>]
        ELSE IF payload = FiveDigit
        THEN [ok |-> TRUE, object |-> FALSE, has_text |-> FALSE, text |-> <<>>]
        ELSE [ok |-> FALSE, object |-> FALSE, has_text |-> FALSE, text |-> <<>>]

\* The for loop over the lines of one cohere event: event_type and
\* data_json_str after the last line (None is [some |-> FALSE]).
RECURSIVE CohereLines(_, _, _, _)
CohereLines(lines, k, event_type, data_json_str) ==
    IF k > Len(lines) THEN [event_type |-> event_type, data_json_str |-> data_json_str]
    ELSE IF StartsWith(lines[k], EventColon)
         THEN CohereLines(lines, k + 1,
                          [some |-> TRUE,
                           value |-> Strip(SubSeq(lines[k], Len(EventColon) + 1, Len(lines[k])))],
                          data_json_str)
    ELSE IF StartsWith(lines[k], DataColon)
         THEN CohereLines(lines, k + 1, event_type,
                          [some |-> TRUE,
                           value |-> Strip(SubSeq(lines[k], Len(DataColon) + 1, Len(lines[k])))])
    ELSE CohereLines(lines, k + 1, event_type, data_json_str)

\* The 'Error:' item of the except Exception clause.
ErrorItem == <<69, 114, 114, 111, 114, 58>>

\* What the cohere decoder does when json.loads raises JSONDecodeError, with a
\* fault: the generator returns.
OnDecodeFailureReturns == Decoded(<<>>, TRUE, FALSE)

\* except json.JSONDecodeError: the frame is logged and skipped.
OnDecodeFailure == Decoded(<<>>, FALSE, FALSE)

\* The body of the while loop of the cohere branch for one event_str.
CohereEvent(event_str) ==
    IF Strip(event_str) = <<>> THEN Decoded(<<>>, FALSE, FALSE)
    ELSE LET r == CohereLines(SplitLines(event_str), 1,
                              [some |-> FALSE, value |-> <<>>], [some |-> FALSE, value |-> <<>>])
             data == JsonPayload(r.data_json_str.value, TextOpen, TextClose)
             is_text == r.event_type.some /\ r.event_type.value = TextGeneration
             is_end == r.event_type.some /\ r.event_type.value = StreamEnd
         IN  IF ~r.data_json_str.some \/ r.data_json_str.value = <<>>
             THEN Decoded(<<>>, FALSE, FALSE)
             ELSE IF ~data.ok THEN OnDecodeFailure
             ELSE IF is_text /\ ~data.object THEN Decoded(<<>>, FALSE, TRUE)
             ELSE IF is_text /\ data.has_text THEN Decoded(<<data.text>>, FALSE, FALSE)
             ELSE IF is_end /\ ~data.object THEN Decoded(<<>>, FALSE, TRUE)
             ELSE IF is_end THEN Decoded(<<>>, TRUE, FALSE)
             ELSE Decoded(<<>>, FALSE, FALSE)

\* buffer.split('\n', 1)
FirstLine(buffer) == SubSeq(buffer, 1, MinOf({i \in 1..Len(buffer) : buffer[i] = 10}) - 1)

RestAfterLine(buffer) ==
    SubSeq(buffer, MinOf({i \in 1..Len(buffer) : buffer[i] = 10}) + 1, Len(buffer))

\* The body of the while loop of the huggingface branch for one line.
HfLine(raw_line) ==
    LET line == Strip(raw_line)
        data_json_str == Strip(SubSeq(line, Len(DataColon) + 1, Len(line)))
        data == JsonPayload(data_json_str, TokenOpen, TokenClose)
    IN  IF line = <<>> \/ ~StartsWith(line, DataColon) THEN Decoded(<<>>, FALSE, FALSE)
        ELSE IF data.ok /\ ~data.object THEN Decoded(<<>>, FALSE, TRUE)
        ELSE IF data.ok /\ data.has_text THEN Decoded(<<data.text>>, FALSE, FALSE)
        ELSE IF data.ok THEN Decoded(<<>>, FALSE, FALSE)
        ELSE IF ~StartsWith(data_json_str, <<123>>) /\ ~StartsWith(data_json_str, <<91>>)
             THEN Decoded(<<data_json_str>>, FALSE, FALSE)
        ELSE Decoded(<<>>, FALSE, FALSE)

\* '{"candidates":[{"content":{"parts":[{"text":"' and '"}]}}]}'
CandidatesOpen ==
    <<123, 34, 99, 97, 110, 100, 105, 100, 97, 116, 101, 115, 34, 58, 91,
      123, 34, 99, 111, 110, 116, 101, 110, 116, 34, 58, 123, 34, 112, 97,
      114, 116, 115, 34, 58, 91, 123, 34, 116, 101, 120, 116, 34, 58, 34>>

CandidatesClose ==
    <<34, 125, 93, 125, 125, 93, 125>>

\* The body of the while loop of the google branch for one line: a leading
\* comma and a 'data: ' prefix are cut off; a line json.loads rejects (also
\* when wrapped in brackets) is skipped; a number is parsed, fails in the
\* loop over data_to_process and is skipped by except Exception.
GoogleLine(raw_line) ==
    LET stripped == Strip(raw_line)
        uncomma == IF StartsWith(stripped, <<44>>) THEN Tail(stripped) ELSE stripped
        line == IF StartsWith(uncomma, DataPrefix)
                THEN SubSeq(uncomma, Len(DataPrefix) + 1, Len(uncomma))
                ELSE uncomma
        data == JsonPayload(line, CandidatesOpen, CandidatesClose)
    IN  IF stripped = <<>> THEN Decoded(<<>>, FALSE, FALSE)
        ELSE IF data.ok /\ data.has_text /\ data.text # <<>>
             THEN Decoded(<<data.text>>, FALSE, FALSE)
        ELSE Decoded(<<>>, FALSE, FALSE)

\* The frames of the modelled bodies of each family: two text frames, a frame
\* whose payload json.loads rejects, and the frames that end a stream; for
\* cohere also a stream-end event without data line, with a payload that is
\* not JSON, and with a payload that is a number; for huggingface also a
\* payload that is plain text; for google a text after 'data: ', a text
\* after a comma, a line that is not JSON and a number.
FramesOf(family) ==
    IF family = "openai" THEN {"text_a", "text_b", "bad", "end"}
    ELSE IF family = "cohere"
    THEN {"text_a", "text_b", "bad", "end", "end_nodata", "end_bad", "end_number"}
    ELSE IF family = "google" THEN {"text_a", "text_b", "bad", "number"}
    ELSE {"text_a", "text_b", "bad", "raw"}

\* The content of a text frame.
FrameText(frame) == IF frame = "text_a" THEN <<97>> ELSE <<98>>

\* 'hi'
RawText == <<104, 105>>

\* The bytes of one frame on the wire, with its delimiter.
FrameBytes(family, frame) ==
    IF family = "openai"
    THEN (IF frame = "bad" THEN DataPrefix \o <<123>>
          ELSE IF frame = "end" THEN DataPrefix \o DoneToken
          ELSE DataLine(FrameText(frame))) \o <<10, 10>>
    ELSE IF family = "cohere"
    THEN EventColon \o <<32>>
         \o (IF frame \in {"text_a", "text_b", "bad"} THEN TextGeneration ELSE StreamEnd)
         \o (IF frame = "end_nodata" THEN <<>>
             ELSE <<10>> \o DataColon \o <<32>>
                  \o (IF frame \in {"bad", "end_bad"} THEN <<123>>
                      ELSE IF frame = "end" THEN EmptyObject
                      ELSE IF frame = "end_number" THEN FiveDigit
                      ELSE TextOpen \o FrameText(frame) \o TextClose))
         \o <<10, 10>>
    ELSE IF family = "google"
    THEN (IF frame = "bad" THEN <<123>>
          ELSE IF frame = "number" THEN FiveDigit
          ELSE IF frame = "text_a"
          THEN DataPrefix \o CandidatesOpen \o FrameText(frame) \o CandidatesClose
          ELSE <<44>> \o CandidatesOpen \o FrameText(frame) \o CandidatesClose)
         \o <<10>>
    ELSE DataColon \o <<32>>
         \o (IF frame = "bad" THEN <<123>>
             ELSE IF frame = "raw" THEN RawText
             ELSE TokenOpen \o FrameText(frame) \o TokenClose)
         \o <<10>>

RECURSIVE EncodeFrames(_, _)
EncodeFrames(family, frames) ==
    IF frames = <<>> THEN <<>>
    ELSE FrameBytes(family, Head(frames)) \o EncodeFrames(family, Tail(frames))

\* The sequences of at most n frames of a family.
RECURSIVE FrameSeqs(_, _)
FrameSeqs(family, n) ==
    IF n = 0 THEN {<<>>}
    ELSE LET shorter == FrameSeqs(family, n - 1)
         IN  shorter \cup {Append(fs, f) : fs \in shorter, f \in FramesOf(family)}

\* The byte offsets at which a modelled body is split in two chunks: not at
\* all, inside its first frame, inside a later frame.
DecoderCuts == {0, 9, 40}

DecoderInit ==
    /\ gwFamily \in {"openai", "cohere", "huggingface"}
    /\ gwFrames \in FrameSeqs(gwFamily, MaxFrames)
    /\ gwStream = EncodeFrames(gwFamily, gwFrames)
    /\ \E cut \in DecoderCuts : gwChunks = ChunksOf(gwStream, cut)
    /\ gwBuffer = <<>>
    /\ gwOut = <<>>
    /\ gwPc = "recv"
    /\ gwDoneSeen = FALSE

\* One turn of the while loop of the cohere branch, or of the huggingface
\* branch: split off a frame and decode it; an exception is caught by except
\* Exception, which yields the 'Error:' item before the generator returns.
SseStep(family, frame, rest, r) ==
    /\ gwPc = "events"
    /\ gwFamily = family
    /\ gwBuffer' = rest
    /\ gwOut' = IF r.error THEN Append(gwOut, ErrorItem) ELSE gwOut \o r.emit
    /\ gwPc' = IF r.done \/ r.error THEN "done" ELSE "events"
    /\ UNCHANGED <<gwStream, gwChunks, gwDoneSeen, gwFamily, gwFrames>>
    /\ UNCHANGED notGw

CohereStep ==
    /\ HasEvent(gwBuffer)
    /\ SseStep("cohere", FirstEvent(gwBuffer), RestAfterEvent(gwBuffer),
               CohereEvent(FirstEvent(gwBuffer)))

HfStep ==
    /\ Delimited("huggingface", gwBuffer)
    /\ SseStep("huggingface", FirstLine(gwBuffer), RestAfterLine(gwBuffer),
               HfLine(FirstLine(gwBuffer)))

GoogleStep ==
    /\ Delimited("google", gwBuffer)
    /\ SseStep("google", FirstLine(gwBuffer), RestAfterLine(gwBuffer),
               GoogleLine(FirstLine(gwBuffer)))

\* The length of the delimiter that closes a frame of a family.
DelimiterLen(family) == IF family \in {"huggingface", "google"} THEN 1 ELSE 2

\* The bodies of the four families, whole or cut short of (a part of) the
\* delimiter that closes their last frame.
TailInit ==
    /\ gwFamily \in {"openai", "cohere", "huggingface", "google"}
    /\ gwFrames \in FrameSeqs(gwFamily, MaxFrames)
    /\ \E short \in 0..DelimiterLen(gwFamily) :
          /\ short > 0 => gwFrames # <<>>
          /\ LET whole == EncodeFrames(gwFamily, gwFrames)
             IN  gwStream = SubSeq(whole, 1, Len(whole) - short)
    /\ \E cut \in DecoderCuts : gwChunks = ChunksOf(gwStream, cut)
    /\ gwBuffer = <<>>
    /\ gwOut = <<>>
    /\ gwPc = "recv"
    /\ gwDoneSeen = FALSE

(***************************************************************************)
(* The call front of call_model_stream: credential, endpoint and model     *)
(* resolution, the request, and the handlers of its failures.              *)
(* An optional value (None or a value) is a record [some, value]; a key is *)
(* a sequence of code points, a name is a string.                          *)
(***************************************************************************)
Absent == [some |-> FALSE, value |-> <<>>]

Present(v) == [some |-> TRUE, value |-> v]

AbsentName == [some |-> FALSE, value |-> ""]

API_KEYS_ENV_VARS ==
    [HUGGINGFACE |-> "HF_TOKEN", GROQ |-> "GROQ_API_KEY",
     OPENROUTER |-> "OPENROUTER_API_KEY", TOGETHERAI |-> "TOGETHERAI_API_KEY",
     COHERE |-> "COHERE_API_KEY", XAI |-> "XAI_API_KEY",
     OPENAI |-> "OPENAI_API_KEY", GOOGLE |-> "GOOGLE_API_KEY"]

API_URLS ==
    [HUGGINGFACE |-> "https://api-inference.huggingface.co/models/",
     GROQ |-> "https://api.groq.com/openai/v1/chat/completions",
     OPENROUTER |-> "https://openrouter.ai/api/v1/chat/completions",
     TOGETHERAI |-> "https://api.together.ai/v1/chat/completions",
     COHERE |-> "https://api.cohere.ai/v1/chat",
     XAI |-> "https://api.x.ai/v1/chat/completions",
     OPENAI |-> "https://api.openai.com/v1/chat/completions",
     GOOGLE |-> "https://generativelanguage.googleapis.com/v1beta/models/"]

MODELS_BY_PROVIDER ==
    [groq |-> [default |-> "llama3-8b-8192",
               models |-> ("Llama 3 8B (Groq)" :> "llama3-8b-8192")]]

\* The values of provider: a provider with registered models under two
\* spellings, two providers with an endpoint and no registered model, and a
\* provider that is not known.
Providers == {"groq", "Groq", "huggingface", "openai", "foo"}

\* str.lower() and str.upper() on the values of provider.
Lower(provider) == IF provider = "Groq" THEN "groq" ELSE provider

Upper(provider) ==
    CASE provider \in {"groq", "Groq"} -> "GROQ"
      [] provider = "huggingface" -> "HUGGINGFACE"
      [] provider = "openai" -> "OPENAI"
      [] OTHER -> "FOO"

\* The values of model_display_name.
ModelNames == {"Llama 3 8B (Groq)", "GPT-4o"}

\* The values of api_key_override: None, "", " ", "k" and " k ".
Overrides == {Absent, Present(<<>>), Present(<<32>>), Present(<<107>>), Present(<<32, 107, 32>>)}

\* The values of os.environ: GROQ_API_KEY unset, " " or "g"; HF_TOKEN unset or
\* "h\n"; no other variable is set.
Environs ==
    {e \in [{"GROQ_API_KEY", "HF_TOKEN"} ->
                {Absent, Present(<<32>>), Present(<<103>>), Present(<<104, 10>>)}] :
        /\ e["GROQ_API_KEY"] \in {Absent, Present(<<32>>), Present(<<103>>)}
        /\ e["HF_TOKEN"] \in {Absent, Present(<<104, 10>>)}}

\* os.getenv(name)
Getenv(environ, name) == IF name \in DOMAIN environ THEN environ[name] ELSE Absent

\* x and x.strip()
NonBlank(x) == x.some /\ Strip(x.value) # <<>>

\* _get_api_key with a fault: the environment variable is read before the
\* override.
_get_api_key_env_first(provider, ui_api_key_override, environ) ==
    LET provider_upper == Upper(provider)
        env_key == IF provider_upper \in DOMAIN API_KEYS_ENV_VARS
                   THEN Getenv(environ, API_KEYS_ENV_VARS[provider_upper])
                   ELSE Absent
    IN  IF NonBlank(env_key) THEN Present(Strip(env_key.value))
        ELSE IF NonBlank(ui_api_key_override) THEN Present(Strip(ui_api_key_override.value))
        ELSE Absent

_get_api_key(provider, ui_api_key_override, environ) ==
    LET provider_upper == Upper(provider)
        env_key == IF provider_upper \in DOMAIN API_KEYS_ENV_VARS
                   THEN Getenv(environ, API_KEYS_ENV_VARS[provider_upper])
                   ELSE Absent
        hf_token_fallback == Getenv(environ, "HF_TOKEN")
    IN  IF NonBlank(ui_api_key_override) THEN Present(Strip(ui_api_key_override.value))
        ELSE IF NonBlank(env_key) THEN Present(Strip(env_key.value))
        ELSE IF provider_upper = "HUGGINGFACE" /\ NonBlank(hf_token_fallback)
             THEN Present(Strip(hf_token_fallback.value))
        ELSE Absent

\* API_URLS.get(provider.upper())
BaseUrl(provider) ==
    IF Upper(provider) \in DOMAIN API_URLS
    THEN [some |-> TRUE, value |-> API_URLS[Upper(provider)]]
    ELSE AbsentName

get_model_id_from_display_name(provider, display_name) ==
    IF /\ Lower(provider) \in DOMAIN MODELS_BY_PROVIDER
       /\ display_name \in DOMAIN MODELS_BY_PROVIDER[Lower(provider)].models
    THEN [some |-> TRUE, value |-> MODELS_BY_PROVIDER[Lower(provider)].models[display_name]]
    ELSE AbsentName

\* not x, for an optional key and for an optional name.
FalsyKey(x) == ~x.some \/ x.value = <<>>

FalsyName(x) == ~x.some \/ x.value = ""

\* ResolutionError with a fault: the model is checked before the endpoint.
ResolutionErrorModelFirst(api_key, base_url, model_id) ==
    IF FalsyKey(api_key) THEN "missing_credential"
    ELSE IF FalsyName(model_id) THEN "unknown_model"
    ELSE IF FalsyName(base_url) THEN "unknown_provider"
    ELSE "none"

\* ResolutionError with a fault: the model is not checked.
ResolutionErrorNoModelCheck(api_key, base_url, model_id) ==
    IF FalsyKey(api_key) THEN "missing_credential"
    ELSE IF FalsyName(base_url) THEN "unknown_provider"
    ELSE "none"

\* The three checks before the request, in the order of the code: the error
\* the call ends with, or "none".
ResolutionError(api_key, base_url, model_id) ==
    IF FalsyKey(api_key) THEN "missing_credential"
    ELSE IF FalsyName(base_url) THEN "unknown_provider"
    ELSE IF FalsyName(model_id) THEN "unknown_model"
    ELSE "none"

\* The wire-format family the dispatch on provider_lower selects.
Family(provider_lower) ==
    CASE provider_lower \in {"groq", "openrouter", "togetherai", "openai", "xai"} -> "openai"
      [] provider_lower = "google" -> "google"
      [] provider_lower = "cohere" -> "cohere"
      [] provider_lower = "huggingface" -> "huggingface"
      [] OTHER -> "none"

\* ExceptHandler with a fault: the request is sent again after the error.
ExceptHandlerRetry(exc) == [item |-> exc, pc |-> "request"]

\* The except clauses of the request: the 'Error:' item yielded and where the
\* generator goes next (the return that follows the try statement).
ExceptHandler(exc) == [item |-> exc, pc |-> "returned"]

\* The response bodies of the call front: one event, one event and the end
\* marker, or nothing.
CallBodies == Bodies(1)

CallInit ==
    /\ cProvider \in Providers
    /\ cModel \in ModelNames
    /\ cOverride \in Overrides
    /\ cEnv \in Environs
    /\ cPc = "start"
    /\ cKey = Absent
    /\ cErr = <<>>
    /\ cReqs = 0

\* No call of call_model_stream is under way.
CallIdle ==
    /\ cProvider = "groq"
    /\ cModel = "Llama 3 8B (Groq)"
    /\ cOverride = Absent
    /\ cEnv = [name \in {"GROQ_API_KEY", "HF_TOKEN"} |-> Absent]
    /\ cPc = "returned"
    /\ cKey = Absent
    /\ cErr = <<>>
    /\ cReqs = 0

\* Lines 112-126: resolve the credential, the endpoint and the model, and
\* yield the error of the first check that fails.
CallResolve ==
    /\ cPc = "start"
    /\ LET provider_lower == Lower(cProvider)
           api_key == _get_api_key(provider_lower, cOverride, cEnv)
           base_url == BaseUrl(cProvider)
           model_id == get_model_id_from_display_name(provider_lower, cModel)
           err == ResolutionError(api_key, base_url, model_id)
       IN  /\ cKey' = api_key
           /\ cErr' = IF err = "none" THEN cErr ELSE Append(cErr, err)
           /\ cPc' = IF err = "none" THEN "request" ELSE "returned"
    /\ UNCHANGED <<cProvider, cModel, cOverride, cEnv, cReqs>>
    /\ UNCHANGED gwVars
    /\ UNCHANGED notCall

\* requests.post and response.raise_for_status(): the response starts to
\* stream, or the status is an error (HTTPError), or the request fails in
\* transport (RequestException).
CallPost(outcome) ==
    /\ cPc = "request"
    /\ cReqs < MaxRequests
    /\ Family(Lower(cProvider)) = "openai"
    /\ cReqs' = cReqs + 1
    /\ IF outcome = "ok"
       THEN /\ gwStream' \in CallBodies
            /\ \E cut \in {0, 7} : gwChunks' = ChunksOf(gwStream', cut)
            /\ gwBuffer' = <<>>
            /\ gwOut' = <<>>
            /\ gwPc' = "recv"
            /\ gwDoneSeen' = FALSE
            /\ gwFamily' = Family(Lower(cProvider))
            /\ gwFrames' = <<>>
            /\ cPc' = "streaming"
            /\ cErr' = cErr
       ELSE /\ cErr' = Append(cErr, ExceptHandler(outcome).item)
            /\ cPc' = ExceptHandler(outcome).pc
            /\ UNCHANGED gwVars
    /\ UNCHANGED <<cProvider, cModel, cOverride, cEnv, cKey>>
    /\ UNCHANGED notCall

\* response.iter_content raises while the body streams (the connection
\* breaks): except RequestException.
CallStreamFail ==
    /\ cPc = "streaming"
    /\ gwPc = "recv"
    /\ cErr' = Append(cErr, ExceptHandler("transport_failure").item)
    /\ cPc' = ExceptHandler("transport_failure").pc
    /\ gwPc' = "done"
    /\ UNCHANGED <<gwStream, gwChunks, gwBuffer, gwOut, gwDoneSeen, gwFamily, gwFrames>>
    /\ UNCHANGED <<cProvider, cModel, cOverride, cEnv, cKey, cReqs>>
    /\ UNCHANGED notCall

\* The streaming loop has ended: the generator returns.
CallReturn ==
    /\ cPc = "streaming"
    /\ gwPc = "done"
    /\ cPc' = "returned"
    /\ UNCHANGED <<cProvider, cModel, cOverride, cEnv, cKey, cErr, cReqs>>
    /\ UNCHANGED gwVars
    /\ UNCHANGED notCall

(***************************************************************************)
(* The filesystem the index is built from. Two directories: "proj" (also   *)
(* reachable as "./proj"), a small tree, and "big", LargeFiles files.      *)
(* An entry is (tree, number); number 0 is the directory itself.           *)
(***************************************************************************)
\* The values of root_path: two spellings of one directory, a second
\* directory, and a path that is no directory.
RootPaths == {"proj", "./proj", "big", "deep", "README.md"}

\* IsDirRoot with a fault: every path passes for a directory.
IsDirRootAlways(root) == TRUE

\* os.path.isdir(root_path)
IsDirRoot(root) == root \in {"proj", "./proj", "big", "deep"}

\* The directory a root_path names.
TreeOf(root) == IF root = "./proj" THEN "proj" ELSE root

\* The entries of "proj": name, parent directory, kind and st_size.
ProjEntries ==
    << [name |-> <<"R", "E", "A", "D", "M", "E", ".", "m", "d">>, parent |-> 0, is_dir |-> FALSE, size |-> 10],
       [name |-> <<"L", "I", "C", "E", "N", "S", "E">>, parent |-> 0, is_dir |-> FALSE, size |-> 1100],
       [name |-> <<"m", "a", "i", "n", ".", "p", "y">>, parent |-> 0, is_dir |-> FALSE, size |-> 300],
       [name |-> <<"a", "u", "t", "h">>, parent |-> 0, is_dir |-> TRUE, size |-> 4096],
       [name |-> <<"l", "o", "g", "i", "n", ".", "p", "y">>, parent |-> 4, is_dir |-> FALSE, size |-> 20000],
       [name |-> <<"d", "o", "c", "s">>, parent |-> 0, is_dir |-> TRUE, size |-> 4096],
       [name |-> <<"g", "u", "i", "d", "e", ".", "m", "d">>, parent |-> 6, is_dir |-> FALSE, size |-> 1200],
       [name |-> <<".", "g", "i", "t">>, parent |-> 0, is_dir |-> TRUE, size |-> 4096],
       [name |-> <<"c", "o", "n", "f", "i", "g">>, parent |-> 8, is_dir |-> FALSE, size |-> 90] >>

\* The entries of "deep": noise directories below the root and two levels
\* down, with files and directories in them, and a file named as one.
DeepEntries ==
    << [name |-> <<"s", "r", "c">>, parent |-> 0, is_dir |-> TRUE, size |-> 4096],
       [name |-> <<"n", "o", "d", "e", "_", "m", "o", "d", "u", "l", "e", "s">>, parent |-> 1, is_dir |-> TRUE, size |-> 4096],
       [name |-> <<"p", "k", "g">>, parent |-> 2, is_dir |-> TRUE, size |-> 4096],
       [name |-> <<"i", "n", "d", "e", "x", ".", "j", "s">>, parent |-> 3, is_dir |-> FALSE, size |-> 700],
       [name |-> <<"a", "p", "p", ".", "p", "y">>, parent |-> 1, is_dir |-> FALSE, size |-> 800],
       [name |-> <<"_", "_", "p", "y", "c", "a", "c", "h", "e", "_", "_">>, parent |-> 1, is_dir |-> TRUE, size |-> 4096],
       [name |-> <<"a", "p", "p", ".", "p", "y", "c">>, parent |-> 6, is_dir |-> FALSE, size |-> 900],
       [name |-> <<"c", "h", "r", "o", "m", "a", "_", "d", "b">>, parent |-> 0, is_dir |-> TRUE, size |-> 4096],
       [name |-> <<"d", "a", "t", "a", ".", "b", "i", "n">>, parent |-> 8, is_dir |-> FALSE, size |-> 5000],
       [name |-> <<".", "g", "i", "t">>, parent |-> 1, is_dir |-> FALSE, size |-> 40] >>

EntryCount(tree) ==
    IF tree = "proj" THEN Len(ProjEntries)
    ELSE IF tree = "deep" THEN Len(DeepEntries)
    ELSE LargeFiles

\* Entry k of a tree; the files of "big" are f1, f2, ... in the directory itself.
Entry(tree, k) ==
    IF tree = "proj" THEN ProjEntries[k]
    ELSE IF tree = "deep" THEN DeepEntries[k]
    ELSE [name |-> <<"f", ToString(k)>>, parent |-> 0, is_dir |-> FALSE, size |-> 100 + k]

\* The entries that may be deleted while the program runs.
Volatile == {<<"proj", 7>>, <<"big", LargeFiles>>}

\* NoiseNames with a fault: no directory is pruned.
NoiseNamesNone == {}

\* The directory names os.walk is told not to descend into.
NoiseNames ==
    { <<".", "g", "i", "t">>,
      <<"_", "_", "p", "y", "c", "a", "c", "h", "e", "_", "_">>,
      <<".", "v", "s", "c", "o", "d", "e">>,
      <<"n", "o", "d", "e", "_", "m", "o", "d", "u", "l", "e", "s">>,
      <<".", "i", "d", "e", "a">>,
      <<"c", "h", "r", "o", "m", "a", "_", "d", "b">> }

\* The entries of directory d (0: the root) that exist, in listing order.
Children(tree, d, gone) ==
    LET here(k) == Entry(tree, k).parent = d /\ <<tree, k>> \notin gone
    IN  SelectSeq([k \in 1..EntryCount(tree) |-> k], here)

\* One turn of the os.walk loop and the walks of the directories kept in dirs:
\* files + dirs of this directory first, then each kept subdirectory in turn.
RECURSIVE WalkFrom(_, _, _)
WalkFrom(tree, d, gone) ==
    LET kids == Children(tree, d, gone)
        isFile(k) == ~Entry(tree, k).is_dir
        keptDir(k) == Entry(tree, k).is_dir /\ Entry(tree, k).name \notin NoiseNames
        files == SelectSeq(kids, isFile)
        dirs == SelectSeq(kids, keptDir)
        below[j \in 0..Len(dirs)] ==
            IF j = 0 THEN <<>> ELSE below[j - 1] \o WalkFrom(tree, dirs[j], gone)
    IN  files \o dirs \o below[Len(dirs)]

\* all_paths after the walk of root_path: the entries found, each standing for
\* the string os.path.join(root, name).
Walk(root, gone) ==
    LET found == WalkFrom(TreeOf(root), 0, gone)
    IN  [j \in 1..Len(found) |-> <<root, found[j]>>]

\* os.path.relpath(path_str, root_path): the names from the root down, joined by "/".
RECURSIVE RelPath(_, _)
RelPath(tree, k) ==
    LET e == Entry(tree, k)
    IN  IF e.parent = 0 THEN e.name ELSE RelPath(tree, e.parent) \o <<"/">> \o e.name

\* The metadata index_directory stores for path_str (modified_time left out).
Meta(id) ==
    LET e == Entry(TreeOf(id[1]), id[2])
    IN  [full_path |-> id,
         relative_path |-> RelPath(TreeOf(id[1]), id[2]),
         is_dir |-> e.is_dir,
         size_bytes |-> e.size]

(***************************************************************************)
(* index_directory: a generator; each action runs it from one yield (or    *)
(* from the point where another thread may set the flag) to the next.      *)
(***************************************************************************)
Builds == {1}

batch_size == 128

Status(kind, done, total, count) == [kind |-> kind, done |-> done, total |-> total, count |-> count]

Min2(a, b) == IF a < b THEN a ELSE b

\* batch_paths = all_paths[i:i+batch_size]
BatchPaths(b) == SubSeq(bPaths[b], bI[b] + 1, Min2(bI[b] + batch_size, Len(bPaths[b])))

\* ids of one batch: the paths whose os.stat succeeds (FileNotFoundError: skipped).
BatchIds(b) ==
    LET batch == BatchPaths(b)
    IN  {batch[j] : j \in {j \in 1..Len(batch) : <<TreeOf(batch[j][1]), batch[j][2]>> \notin fsGone}}

\* Upserted with a fault: the batch replaces what was stored.
UpsertedReplacing(st, ids) == ids

\* self.collection.upsert(documents, metadatas, ids): the stored identities after it.
Upserted(st, ids) == st \cup ids

\* A new SemanticExplorer on an empty collection, with the generators builds.
IdxInitFor(builds) ==
    /\ fsGone = {}
    /\ store = {}
    /\ is_cancelled = FALSE
    /\ bPc = [b \in builds |-> "idle"]
    /\ bRoot = [b \in builds |-> "proj"]
    /\ bPaths = [b \in builds |-> <<>>]
    /\ bI = [b \in builds |-> 0]
    /\ bOut = [b \in builds |-> <<>>]
    /\ bClean = [b \in builds |-> FALSE]
    /\ baseline = [runs |-> 0, tree |-> "proj", count |-> 0]
    /\ runs = 0
    /\ srch = [called |-> FALSE]
    /\ clr = [called |-> FALSE]
    /\ cancelSeen = {}

IdxInit == IdxInitFor(Builds)

\* FlagAtFirstPull with a fault: the flag is left as it was.
FlagAtFirstPullKept(flag) == flag

\* self.is_cancelled = False, the first statement of index_directory.
FlagAtFirstPull(flag) == FALSE

\* The first pull: the flag is reset, root_path is validated, "Scanning
\* directories..." is yielded.
BuildStart(b, root) ==
    /\ bPc[b] = "idle"
    /\ runs < MaxBuilds
    /\ runs' = runs + 1
    /\ is_cancelled' = FlagAtFirstPull(is_cancelled)
    /\ bRoot' = [bRoot EXCEPT ![b] = root]
    /\ bPaths' = [bPaths EXCEPT ![b] = <<>>]
    /\ bI' = [bI EXCEPT ![b] = 0]
    /\ bClean' = [bClean EXCEPT ![b] = FALSE]
    /\ IF IsDirRoot(root)
       THEN /\ bOut' = [bOut EXCEPT ![b] = <<Status("scanning", 0, 0, 0)>>]
            /\ bPc' = [bPc EXCEPT ![b] = "scan"]
       ELSE /\ bOut' = [bOut EXCEPT ![b] = <<Status("error", 0, 0, 0)>>]
            /\ bPc' = bPc
    /\ srch' = [called |-> FALSE]
    /\ clr' = [called |-> FALSE]
    /\ cancelSeen' = cancelSeen \ {b}
    /\ UNCHANGED <<fsGone, store, baseline>>
    /\ UNCHANGED notIdx

\* The os.walk loop, then "Scan complete" or, with the flag set, "Build cancelled".
BuildScan(b) ==
    /\ bPc[b] = "scan"
    /\ IF is_cancelled
       THEN /\ bOut' = [bOut EXCEPT ![b] = Append(@, Status("cancelled_scan", 0, 0, Cardinality(store)))]
            /\ bPc' = [bPc EXCEPT ![b] = "idle"]
            /\ UNCHANGED <<bPaths, bClean>>
       ELSE /\ bPaths' = [bPaths EXCEPT ![b] = Walk(bRoot[b], fsGone)]
            /\ bClean' = [bClean EXCEPT ![b] = TRUE]
            /\ bOut' = [bOut EXCEPT ![b] =
                          Append(@, Status("scan_complete", 0, Len(Walk(bRoot[b], fsGone)), 0))]
            /\ bPc' = [bPc EXCEPT ![b] = "loop"]
    /\ srch' = [called |-> FALSE]
    /\ clr' = [called |-> FALSE]
    /\ UNCHANGED <<fsGone, store, is_cancelled, bRoot, bI, baseline, runs, cancelSeen>>
    /\ UNCHANGED notIdx

\* FinalKind with a fault: the flag is not looked at.
FinalKindComplete(cancelled) == "complete"

\* if self.is_cancelled: "Build cancelled. ..." else: "Index build complete. ..."
FinalKind(cancelled) == IF cancelled THEN "cancelled" ELSE "complete"

\* Whether this run is the one baseline counts, or starts a new baseline.
NaturalEnd(b) == bI[b] >= Len(bPaths[b]) /\ ~is_cancelled

\* The head of the batch loop: the range is exhausted or the flag is set (the
\* final status is yielded and the generator ends), or the status of the next
\* batch is yielded.
BuildLoop(b) ==
    /\ bPc[b] = "loop"
    /\ IF bI[b] >= Len(bPaths[b]) \/ is_cancelled
       THEN /\ bOut' = [bOut EXCEPT ![b] =
                          Append(@, Status(FinalKind(is_cancelled),
                                           0, Len(bPaths[b]), Cardinality(store)))]
            /\ bPc' = [bPc EXCEPT ![b] = "idle"]
            /\ baseline' =
                 IF ~(NaturalEnd(b) /\ bClean[b]) THEN baseline
                 ELSE IF baseline.runs > 0 /\ baseline.tree = TreeOf(bRoot[b])
                      THEN [baseline EXCEPT !.runs = 2]
                      ELSE [runs |-> 1, tree |-> TreeOf(bRoot[b]), count |-> Cardinality(store)]
       ELSE /\ bOut' = [bOut EXCEPT ![b] =
                          Append(@, Status("batch", Min2(bI[b] + batch_size, Len(bPaths[b])),
                                           Len(bPaths[b]), 0))]
            /\ bPc' = [bPc EXCEPT ![b] = "batch"]
            /\ UNCHANGED baseline
    /\ srch' = [called |-> FALSE]
    /\ clr' = [called |-> FALSE]
    /\ UNCHANGED <<fsGone, store, is_cancelled, bRoot, bPaths, bI, bClean, runs, cancelSeen>>
    /\ UNCHANGED notIdx

\* The body of the batch loop after its yield: stat every path of the batch,
\* upsert those found, go back to the head of the loop.
BuildBatch(b) ==
    /\ bPc[b] = "batch"
    /\ store' = IF BatchIds(b) # {} THEN Upserted(store, BatchIds(b)) ELSE store
    /\ bI' = [bI EXCEPT ![b] = @ + batch_size]
    /\ bPc' = [bPc EXCEPT ![b] = "loop"]
    /\ baseline' = IF baseline.runs > 0 /\ baseline.tree # TreeOf(bRoot[b])
                   THEN [baseline EXCEPT !.runs = 0] ELSE baseline
    /\ srch' = [called |-> FALSE]
    /\ clr' = [called |-> FALSE]
    /\ UNCHANGED <<fsGone, is_cancelled, bRoot, bPaths, bOut, bClean, runs, cancelSeen>>
    /\ UNCHANGED notIdx

\* cancel_indexing()
CancelIndexing ==
    /\ is_cancelled' = TRUE
    /\ srch' = [called |-> FALSE]
    /\ clr' = [called |-> FALSE]
    /\ cancelSeen' = cancelSeen \cup {b \in DOMAIN bPc : bPc[b] # "idle"}
    /\ UNCHANGED <<fsGone, store, bPc, bRoot, bPaths, bI, bOut, bClean, baseline, runs>>
    /\ UNCHANGED notIdx

\* Deleted with a fault: nothing is deleted.
DeletedNothing(st, ids) == st

\* self.collection.delete(ids): the stored identities after it.
Deleted(st, ids) == st \ ids

\* clear_index(): count the store, delete every identity self.collection.get
\* returns, return the count.
ClearIndex ==
    /\ LET count == Cardinality(store)
           ids_to_delete == store
       IN  /\ store' = IF count > 0 THEN Deleted(store, ids_to_delete) ELSE store
           /\ clr' = [called |-> TRUE, before |-> Cardinality(store), returned |-> count]
    /\ bClean' = [b \in DOMAIN bClean |-> FALSE]
    /\ baseline' = [baseline EXCEPT !.runs = 0]
    /\ srch' = [called |-> FALSE]
    /\ UNCHANGED <<fsGone, is_cancelled, bPc, bRoot, bPaths, bI, bOut, runs, cancelSeen>>
    /\ UNCHANGED notIdx

\* The environment deletes a file.
Vanish(e) ==
    /\ e \in Volatile \ fsGone
    /\ fsGone' = fsGone \cup {e}
    /\ bClean' = [b \in DOMAIN bClean |-> FALSE]
    /\ baseline' = [baseline EXCEPT !.runs = 0]
    /\ srch' = [called |-> FALSE]
    /\ clr' = [called |-> FALSE]
    /\ UNCHANGED <<store, is_cancelled, bPc, bRoot, bPaths, bI, bOut, runs, cancelSeen>>
    /\ UNCHANGED notIdx

(***************************************************************************)
(* search. A filter is a dict: a function from keys to values.             *)
(***************************************************************************)
OverFetch == 5

\* Python's "sub in text" for strings.
Contains(sub, text) ==
    \E i \in 0..(Len(text) - Len(sub)) : SubSeq(text, i + 1, i + Len(sub)) = sub

\* The filters the model hands to search.
NoFilter == [k \in {} |-> 0]

ContainsLeaf(sub) == [relative_path |-> ("$contains" :> sub)]

SizeGt(v) == [size_bytes |-> ("$gt" :> v)]

SizeLt(v) == [size_bytes |-> ("$lt" :> v)]

IsDirLeaf(v) == [is_dir |-> v]

AndOf(leaves) == "$and" :> leaves

DotPy == <<".", "p", "y">>

Auth == <<"a", "u", "t", "h">>

\* {"$and":[{"relative_path":{"$contains":".py"}},{"size_bytes":{"$gt":10240}}]}
ScenarioFilter == AndOf(<<ContainsLeaf(DotPy), SizeGt(10240)>>)

\* {"relative_path":{"$contains":".py"},"is_dir":false}
BareLeaves == [relative_path |-> ("$contains" :> DotPy), is_dir |-> FALSE]

Filters ==
    { NoFilter,
      ContainsLeaf(DotPy),
      AndOf(<<ContainsLeaf(DotPy)>>),
      ScenarioFilter,
      AndOf(<<ContainsLeaf(Auth), ContainsLeaf(DotPy)>>),
      AndOf(<<IsDirLeaf(FALSE), SizeLt(2000)>>),
      SizeGt(1000),
      BareLeaves }

\* 'relative_path' in cond and '$contains' in cond['relative_path']
IsContainsCond(cond) ==
    /\ "relative_path" \in DOMAIN cond
    /\ "$contains" \in DOMAIN cond["relative_path"]

WithoutKey(d, key) == [k \in DOMAIN d \ {key} |-> d[k]]

\* PathContainsFilter with a fault: the first $contains leaf of the $and list
\* is kept, not the last.
PathContainsFilterFirst(metadata_filters) ==
    IF "$and" \in DOMAIN metadata_filters
    THEN LET conds == SelectSeq(metadata_filters["$and"], IsContainsCond)
         IN  IF conds = <<>> THEN [set |-> FALSE, sub |-> <<>>]
             ELSE [set |-> TRUE, sub |-> conds[1]["relative_path"]["$contains"]]
    ELSE IF IsContainsCond(metadata_filters)
         THEN [set |-> TRUE, sub |-> metadata_filters["relative_path"]["$contains"]]
    ELSE [set |-> FALSE, sub |-> <<>>]

\* path_contains_filter after the filter was split: None (set FALSE), or the
\* substring of the bare leaf, or of the last $contains leaf of the $and list.
PathContainsFilter(metadata_filters) ==
    IF "$and" \in DOMAIN metadata_filters
    THEN LET conds == SelectSeq(metadata_filters["$and"], IsContainsCond)
         IN  IF conds = <<>> THEN [set |-> FALSE, sub |-> <<>>]
             ELSE [set |-> TRUE, sub |-> conds[Len(conds)]["relative_path"]["$contains"]]
    ELSE IF IsContainsCond(metadata_filters)
         THEN [set |-> TRUE, sub |-> metadata_filters["relative_path"]["$contains"]]
    ELSE [set |-> FALSE, sub |-> <<>>]

\* db_filters after the filter was split: what is handed to the store as "where".
DbFilters(metadata_filters) ==
    IF "$and" \in DOMAIN metadata_filters
    THEN LET notContains(cond) == ~IsContainsCond(cond)
             remaining == SelectSeq(metadata_filters["$and"], notContains)
         IN  IF remaining = <<>> THEN WithoutKey(metadata_filters, "$and")
             ELSE [metadata_filters EXCEPT !["$and"] = remaining]
    ELSE IF IsContainsCond(metadata_filters) THEN WithoutKey(metadata_filters, "relative_path")
    ELSE metadata_filters

\* The store's native predicate language: equality on is_dir, $gt / $lt on
\* size_bytes, $and over a list.
RECURSIVE WhereHolds(_, _)
WhereHolds(where, meta) ==
    /\ "is_dir" \in DOMAIN where => meta.is_dir = where["is_dir"]
    /\ "size_bytes" \in DOMAIN where =>
          /\ "$gt" \in DOMAIN where["size_bytes"] => meta.size_bytes > where["size_bytes"]["$gt"]
          /\ "$lt" \in DOMAIN where["size_bytes"] => meta.size_bytes < where["size_bytes"]["$lt"]
    /\ "$and" \in DOMAIN where =>
          \A j \in 1..Len(where["$and"]) : WhereHolds(where["$and"][j], meta)

\* The store's validation of "where" before a query runs: a $and list needs at
\* least two expressions, each valid itself; a predicate that fails it makes
\* collection.query raise ValueError.
RECURSIVE WhereValid(_)
WhereValid(where) ==
    "$and" \in DOMAIN where =>
        /\ Len(where["$and"]) >= 2
        /\ \A j \in 1..Len(where["$and"]) : WhereValid(where["$and"][j])

\* The embedding of a query text decides the order of the neighbours. Two
\* rankings: "user login" ranks the auth files first, every other text (as
\* "project overview") ranks the documents first and the Python files last.
\* The files of "big" are far from every query.
UserLogin == <<"user", " ", "login">>

ProjectOverview == <<"project", " ", "overview">>

Queries == {UserLogin, ProjectOverview}

ProjOrder(query) ==
    IF query = UserLogin THEN <<5, 4, 3, 1, 7, 6, 2>> ELSE <<1, 7, 6, 2, 4, 3, 5>>

\* The cosine distance, in hundredths, between a query and a stored document.
Distance(query, id) ==
    IF TreeOf(id[1]) = "proj"
    THEN LET pos == CHOOSE j \in 1..Len(ProjOrder(query)) : ProjOrder(query)[j] = id[2]
         IN  10 * pos
    ELSE 95

\* Every identity a store can hold, nearest first for the query (ties: "proj"
\* before "./proj", the files of "big" by number).
NearestFirst(query) ==
    LET po == ProjOrder(query)
    IN  [j \in 1..(2 * Len(po)) |->
            <<IF j % 2 = 1 THEN "proj" ELSE "./proj", po[(j + 1) \div 2]>>]
        \o [k \in 1..LargeFiles |-> <<"big", k>>]

\* self.collection.query(query_embeddings, n_results, where): the n nearest
\* stored identities that satisfy where.
StoreQuery(st, query, n, where) ==
    LET hit(id) == id \in st /\ WhereHolds(where, Meta(id))
        hits == SelectSeq(NearestFirst(query), hit)
    IN  SubSeq(hits, 1, Min2(n, Len(hits)))

\* The number of candidates asked of the store.
FetchCount(st, n_results) == Min2(n_results * OverFetch, Cardinality(st))

\* Kept with a fault: the substring filter is not applied.
KeptUnfiltered(cands, pcf, n_results) == SubSeq(cands, 1, Min2(n_results, Len(cands)))

\* Kept with a fault: the results are not cut at n_results.
KeptUncut(cands, pcf, n_results) ==
    LET pass(id) == ~(pcf.set /\ pcf.sub # <<>>) \/ Contains(pcf.sub, Meta(id).relative_path)
    IN  SelectSeq(cands, pass)

\* The loop over the candidates: those passing the substring filter, cut at n_results.
Kept(cands, pcf, n_results) ==
    LET pass(id) == ~(pcf.set /\ pcf.sub # <<>>) \/ Contains(pcf.sub, Meta(id).relative_path)
        passed == SelectSeq(cands, pass)
    IN  SubSeq(passed, 1, Min2(n_results, Len(passed)))

\* ResultOf with a fault: the distance is reported as the similarity.
ResultOfDistance(query, id) ==
    [similarity |-> Distance(query, id),
     path |-> Meta(id).relative_path,
     full_path |-> Meta(id).full_path,
     is_dir |-> Meta(id).is_dir,
     size |-> IF Meta(id).is_dir THEN -1 ELSE Meta(id).size_bytes]

\* One entry of output.
ResultOf(query, id) ==
    [similarity |-> 100 - Distance(query, id),
     path |-> Meta(id).relative_path,
     full_path |-> Meta(id).full_path,
     is_dir |-> Meta(id).is_dir,
     size |-> IF Meta(id).is_dir THEN -1 ELSE Meta(id).size_bytes]

\* ReturnsAtOnce with a fault: the empty store is not looked for.
ReturnsAtOnceNever(st) == FALSE

\* if self.collection.count() == 0: return []
ReturnsAtOnce(st) == Cardinality(st) = 0

\* search(query, n_results, metadata_filters) on a store.
Search(st, query, n_results, metadata_filters) ==
    IF ReturnsAtOnce(st) THEN <<>>
    ELSE LET cands == StoreQuery(st, query, FetchCount(st, n_results), DbFilters(metadata_filters))
             kept == Kept(cands, PathContainsFilter(metadata_filters), n_results)
         IN  [j \in 1..Len(kept) |-> ResultOf(query, kept[j])]

\* A Python number where a dict is expected (a filter document that is a bare
\* JSON number): the record stands for the int.
PyNumber(v) == [py_int |-> v]

IsPyNumber(x) == "py_int" \in DOMAIN x

\* Whether search raises instead of returning: the store is not empty and
\* either metadata_filters is a non-zero number (metadata_filters.copy() raises
\* AttributeError), or a predicate is handed to the store and the store (one
\* that validates, as the installed version may or may not) rejects it.
SearchRaises(st, metadata_filters, validating) ==
    /\ ~ReturnsAtOnce(st)
    /\ \/ IsPyNumber(metadata_filters)
       \/ /\ DOMAIN DbFilters(metadata_filters) # {}
          /\ validating
          /\ ~WhereValid(DbFilters(metadata_filters))

\* The values of n_results.
NResults == {1, 2}

\* Whether search gets as far as self.model.encode([query]) and
\* self.collection.query: it has not returned at once and the copy of the
\* filter has not raised.
Encodes(st, metadata_filters) == ~ReturnsAtOnce(st) /\ ~IsPyNumber(metadata_filters)

DoSearch(query, n, f, validating) ==
    /\ srch' = [called |-> TRUE, query |-> query, n |-> n, filter |-> f,
                count |-> Cardinality(store),
                encoded |-> Encodes(store, f),
                queried |-> Encodes(store, f),
                raised |-> SearchRaises(store, f, validating),
                result |-> IF SearchRaises(store, f, validating) THEN <<>>
                           ELSE Search(store, query, n, f)]
    /\ clr' = [called |-> FALSE]
    /\ UNCHANGED <<fsGone, store, is_cancelled, bPc, bRoot, bPaths, bI, bOut, bClean, baseline, runs, cancelSeen>>
    /\ UNCHANGED notIdx

(***************************************************************************)
(* get_response_stream: a generator. Its text is a sequence of words.      *)
(***************************************************************************)
\* The words str.strip() removes.
IsBlankWord(w) == w \in {" ", "\n"}

\* str.strip() on a sequence of words.
StripWords(text) ==
    LET keep == {i \in 1..Len(text) : ~IsBlankWord(text[i])}
    IN  IF keep = {} THEN <<>> ELSE SubSeq(text, MinOf(keep), MaxOf(keep))

OpenTag(tag) == IF tag = "semantic_query" THEN "<semantic_query>" ELSE "<filters>"

CloseTag(tag) == IF tag = "semantic_query" THEN "</semantic_query>" ELSE "</filters>"

\* _extract_xml_tag(tag, text): the leftmost <tag> that has a </tag> after it,
\* up to the first such </tag>, stripped; found = FALSE stands for None.
_extract_xml_tag(tag, text) ==
    LET closes(i) == {j \in (i + 1)..Len(text) : text[j] = CloseTag(tag)}
        opens == {i \in 1..Len(text) : text[i] = OpenTag(tag) /\ closes(i) # {}}
    IN  IF opens = {} THEN [found |-> FALSE, value |-> <<>>]
        ELSE [found |-> TRUE,
              value |-> StripWords(SubSeq(text, MinOf(opens) + 1, MinOf(closes(MinOf(opens))) - 1))]

\* JSON documents a planning response may carry between <filters> and </filters>.
JsonEmpty == "{}"

JsonDotPy == "{\"relative_path\": {\"$contains\": \".py\"}}"

JsonDotRs == "{\"relative_path\": {\"$contains\": \".rs\"}}"

JsonScenario == "{\"$and\": [{\"relative_path\": {\"$contains\": \".py\"}}, {\"size_bytes\": {\"$gt\": 10240}}]}"

JsonBroken == "{\"relative_path\": "

JsonNumber == "5"

DotRs == <<".", "r", "s">>

\* json.loads(filters_str): the value of a document; ok = FALSE stands for
\* json.JSONDecodeError.
JsonLoads(text) ==
    IF text = <<JsonEmpty>> THEN [ok |-> TRUE, value |-> NoFilter]
    ELSE IF text = <<JsonDotPy>> THEN [ok |-> TRUE, value |-> ContainsLeaf(DotPy)]
    ELSE IF text = <<JsonDotRs>> THEN [ok |-> TRUE, value |-> ContainsLeaf(DotRs)]
    ELSE IF text = <<JsonScenario>> THEN [ok |-> TRUE, value |-> ScenarioFilter]
    ELSE IF text = <<JsonNumber>> THEN [ok |-> TRUE, value |-> PyNumber(5)]
    ELSE [ok |-> FALSE, value |-> NoFilter]

\* The error paths of call_model_stream: the three checks before the request
\* and the three except clauses of the request.
GatewayErrors ==
    {"missing_credential", "unknown_provider", "unknown_model",
     "http_error", "transport_failure", "unexpected"}

\* The item each of them yields, as words (the values formatted into it left
\* out): every one is an f-string that starts with 'Error: '.
GatewayItem(kind) ==
    CASE kind = "missing_credential" ->
            <<"Error:", " ", "API", " ", "Key", " ", "not", " ", "found">>
      [] kind = "unknown_provider" -> <<"Error:", " ", "Unknown", " ", "provider">>
      [] kind = "unknown_model" -> <<"Error:", " ", "Model", " ", "ID", " ", "not", " ", "found">>
      [] kind = "http_error" -> <<"Error:", " ", "API", " ", "HTTP", " ", "Error">>
      [] kind = "transport_failure" -> <<"Error:", " ", "Could", " ", "not", " ", "connect">>
      [] OTHER -> <<"Error:", " ", "An", " ", "unexpected", " ", "error", " ", "occurred">>

\* Text of the model that happens to begin with 'Error:'.
ModelOutputError == <<"Error:", " ", "handling", " ", "is", " ", "in", " ", "auth">>

\* IsErrorChunk with a fault: only the items of the gateway's error paths are
\* taken for a gateway error.
IsErrorChunkGatewayItem(chunk) == \E kind \in GatewayErrors : chunk = GatewayItem(kind)

\* IsErrorChunk with a fault: no chunk is taken for a gateway error.
IsErrorChunkNever(chunk) == FALSE

\* chunk.startswith("Error:")
IsErrorChunk(chunk) == Len(chunk) > 0 /\ chunk[1] = "Error:"

\* "not search_query", "not filters_str": None or the empty string.
Missing(extracted) == ~extracted.found \/ extracted.value = <<>>

\* QueryOrInput with a fault: the extracted value is used as it is.
QueryOrInputKept(extracted, user_input) == extracted.value

\* search_query after "if not search_query: search_query = user_input".
QueryOrInput(extracted, user_input) ==
    IF Missing(extracted) THEN user_input ELSE extracted.value

\* NoResults with a fault: an empty result is not told from a non-empty one.
NoResultsNever(search_results) == FALSE

\* not search_results
NoResults(search_results) == Len(search_results) = 0

\* n_results of the search call: the default of search.
DefaultNResults == 20

\* The entries of agLog.
Emit(kind, text) == [type |-> "emit", kind |-> kind, text |-> text, filters |-> NoFilter, count |-> 0]

EmitPlan(kind, query, filters) ==
    [type |-> "emit", kind |-> kind, text |-> query, filters |-> filters, count |-> 0]

GwCall(phase) == [type |-> "call", kind |-> phase, text |-> <<>>, filters |-> NoFilter, count |-> 0]

Recv(phase, chunk) == [type |-> "recv", kind |-> phase, text |-> chunk, filters |-> NoFilter, count |-> 0]

SearchCall(outcome, query, filters, count) ==
    [type |-> "search", kind |-> outcome, text |-> query, filters |-> filters, count |-> count]

\* The emission of the synthesis loop: log_message (the plan recap: query and
\* filters), the "Step 3" heading and full_response.
EmitSnapshot(query, filters, full_response) ==
    [type |-> "emit", kind |-> "snapshot", text |-> full_response, filters |-> filters,
     count |-> 0, query |-> query]

\* Accumulate with a fault: only the chunk just received is kept.
AccumulateLatest(full_response, chunk) == chunk

\* full_response += chunk
Accumulate(full_response, chunk) == full_response \o chunk

\* Exhausted with a fault: the loop may end before the stream does.
ExhaustedAlways(stream) == TRUE

\* The for loop over the gateway's stream ends: the stream has no item left.
Exhausted(stream) == stream = <<>>

\* The streams call_model_stream delivers for the planning prompt.
PlanStreams ==
    { << <<"<tool_call>", "<semantic_query>", "user", " ", "login">>,
         <<"</semantic_query>", "<filters>", "</filters>", "</tool_call>">> >>,
      << <<"<semantic_query>", " ", "user", " ", "login", " ", "</semantic_query>",
           "<filters>", "\n", JsonDotPy, "\n", "</filters>">> >>,
      << <<"<semantic_query>", "user", " ", "login", "</semantic_query>">>,
         <<"<filters>", JsonDotRs, "</filters>">> >>,
      << <<"<semantic_query>", "user", " ", "login", "</semantic_query>",
           "<filters>", JsonScenario, "</filters>">> >>,
      << <<"<semantic_query>", "project", " ", "overview", "</semantic_query>",
           "<filters>", JsonEmpty, "</filters>">> >>,
      << <<"I", " ", "cannot", " ", "help">> >>,
      << <<"<filters>", JsonDotPy, "</filters>">> >>,
      << <<"<semantic_query>", "user", " ", "login">>, <<"<filters>", JsonBroken, "</filters>">> >>,
      << <<"<semantic_query>", " ", "</semantic_query>">> >>,
      << <<"<semantic_query>", "user", " ", "login", "</semantic_query>",
           "<filters>", JsonNumber, "</filters>">> >>,
      << GatewayItem("missing_credential") >>,
      << <<"<semantic_query>", "user">>, <<"Error:", " ", "HTTP", " ", "500">> >>,
      << <<"<semantic_query>", "user">>, ModelOutputError >> }

\* The streams call_model_stream delivers for the synthesis prompt.
SynthStreams ==
    { << <<"The", " ", "login">>, <<" ", "code", " ", "is", " ", "here">> >>,
      << <<"The", " ", "login">>, <<"Error:", " ", "HTTP", " ", "500">> >>,
      << GatewayItem("missing_credential") >>,
      << <<"The", " ", "login">>, ModelOutputError >>,
      << >> }

\* The values of user_input.
UserInputs == { <<"where", " ", "is", " ", "the", " ", "login", " ", "code">>, ProjectOverview }

AgInit ==
    /\ agPc = "new"
    /\ agUser = <<>>
    /\ agStream = <<>>
    /\ agResp = <<>>
    /\ agQuery = <<>>
    /\ agFiltersStr = [found |-> FALSE, value |-> <<>>]
    /\ agFilters = NoFilter
    /\ agFull = <<>>
    /\ agLog = <<>>

\* The first pull: "Analyzing request..." is yielded.
AgStart(user_input) ==
    /\ agPc = "new"
    /\ agUser' = user_input
    /\ agLog' = Append(agLog, Emit("analyzing", <<>>))
    /\ agPc' = "plan_call"
    /\ UNCHANGED <<agStream, agResp, agQuery, agFiltersStr, agFilters, agFull>>
    /\ UNCHANGED notAg

\* The planning call of the gateway.
AgPlanCall(stream) ==
    /\ agPc = "plan_call"
    /\ agLog' = Append(agLog, GwCall("planning"))
    /\ agStream' = stream
    /\ agResp' = <<>>
    /\ agPc' = "planning"
    /\ UNCHANGED <<agUser, agQuery, agFiltersStr, agFilters, agFull>>
    /\ UNCHANGED notAg

\* One turn of the planning loop: a chunk that starts with "Error:" is yielded
\* as the query generation error and the generator returns at its next pull;
\* any other chunk is added to llm_response_str.
AgPlanChunk ==
    /\ agPc = "planning"
    /\ agStream # <<>>
    /\ agStream' = Tail(agStream)
    /\ IF IsErrorChunk(Head(agStream))
       THEN /\ agLog' = agLog \o <<Recv("planning", Head(agStream)),
                                  Emit("plan_error", Head(agStream))>>
            /\ agPc' = "return"
            /\ UNCHANGED agResp
       ELSE /\ agLog' = Append(agLog, Recv("planning", Head(agStream)))
            /\ agResp' = agResp \o Head(agStream)
            /\ UNCHANGED agPc
    /\ UNCHANGED <<agUser, agQuery, agFiltersStr, agFilters, agFull>>
    /\ UNCHANGED notAg

\* The planning call raises: the exception text is yielded.
AgPlanException ==
    /\ agPc = "planning"
    /\ agLog' = Append(agLog, Emit("plan_exception", <<>>))
    /\ agPc' = "return"
    /\ UNCHANGED <<agUser, agStream, agResp, agQuery, agFiltersStr, agFilters, agFull>>
    /\ UNCHANGED notAg

\* The planning stream ended: both tags are extracted; without a query the raw
\* input is used and the warning is yielded.
AgPlanEnd ==
    /\ agPc = "planning"
    /\ Exhausted(agStream)
    /\ agQuery' = QueryOrInput(_extract_xml_tag("semantic_query", agResp), agUser)
    /\ agFiltersStr' = _extract_xml_tag("filters", agResp)
    /\ agFilters' = NoFilter
    /\ agLog' = IF Missing(_extract_xml_tag("semantic_query", agResp))
                THEN Append(agLog, Emit("warn_query", <<>>))
                ELSE agLog
    /\ agPc' = "filters"
    /\ UNCHANGED <<agUser, agStream, agResp, agFull>>
    /\ UNCHANGED notAg

\* filters_str, when there is one, is parsed; a document that does not parse
\* is dropped and the warning is yielded.
AgFilters ==
    /\ agPc = "filters"
    /\ IF Missing(agFiltersStr)
       THEN UNCHANGED <<agFilters, agLog>>
       ELSE IF JsonLoads(agFiltersStr.value).ok
       THEN /\ agFilters' = JsonLoads(agFiltersStr.value).value
            /\ UNCHANGED agLog
       ELSE /\ agFilters' = NoFilter
            /\ agLog' = Append(agLog, Emit("warn_filters", <<>>))
    /\ agPc' = "executing"
    /\ UNCHANGED <<agUser, agStream, agResp, agQuery, agFiltersStr, agFull>>
    /\ UNCHANGED notAg

\* The search plan and "Step 2: Executing Search..." are yielded.
AgExecuting ==
    /\ agPc = "executing"
    /\ agLog' = Append(agLog, EmitPlan("executing", agQuery, agFilters))
    /\ agPc' = "search"
    /\ UNCHANGED <<agUser, agStream, agResp, agQuery, agFiltersStr, agFilters, agFull>>
    /\ UNCHANGED notAg

\* explorer.search(search_query, metadata_filters = metadata_filters): it
\* raises (the exception leaves the generator), or it returns nothing (the
\* message that nothing was found is yielded, the generator returns at its
\* next pull), or the turn goes on to the synthesis.
AgSearch(validating) ==
    /\ agPc = "search"
    /\ IF SearchRaises(store, agFilters, validating)
       THEN /\ agLog' = Append(agLog, SearchCall("raised", agQuery, agFilters, 0))
            /\ agPc' = "raised"
       ELSE LET search_results == Search(store, agQuery, DefaultNResults, agFilters)
                call == SearchCall("returned", agQuery, agFilters, Len(search_results))
            IN  IF NoResults(search_results)
                THEN /\ agLog' = agLog \o <<call, Emit("no_results", <<>>)>>
                     /\ agPc' = "return"
                ELSE /\ agLog' = Append(agLog, call)
                     /\ agPc' = "synth_call"
    /\ UNCHANGED <<agUser, agStream, agResp, agQuery, agFiltersStr, agFilters, agFull>>
    /\ UNCHANGED notAg

\* The synthesis call of the gateway.
AgSynthCall(stream) ==
    /\ agPc = "synth_call"
    /\ agLog' = Append(agLog, GwCall("synthesizing"))
    /\ agStream' = stream
    /\ agFull' = <<>>
    /\ agPc' = "synth"
    /\ UNCHANGED <<agUser, agResp, agQuery, agFiltersStr, agFilters>>
    /\ UNCHANGED notAg

\* One turn of the synthesis loop: a chunk that starts with "Error:" is yielded
\* as it is and the generator returns at its next pull; any other chunk is
\* added to full_response and the snapshot is yielded.
AgSynthChunk ==
    /\ agPc = "synth"
    /\ agStream # <<>>
    /\ agStream' = Tail(agStream)
    /\ IF IsErrorChunk(Head(agStream))
       THEN /\ agLog' = agLog \o <<Recv("synthesizing", Head(agStream)),
                                  Emit("synth_error", Head(agStream))>>
            /\ agPc' = "return"
            /\ UNCHANGED agFull
       ELSE /\ agLog' = agLog \o <<Recv("synthesizing", Head(agStream)),
                                  EmitSnapshot(agQuery, agFilters,
                                               Accumulate(agFull, Head(agStream)))>>
            /\ agFull' = Accumulate(agFull, Head(agStream))
            /\ UNCHANGED agPc
    /\ UNCHANGED <<agUser, agResp, agQuery, agFiltersStr, agFilters>>
    /\ UNCHANGED notAg

\* The synthesis call raises: the exception text is yielded.
AgSynthException ==
    /\ agPc = "synth"
    /\ agLog' = Append(agLog, Emit("synth_exception", <<>>))
    /\ agPc' = "return"
    /\ UNCHANGED <<agUser, agStream, agResp, agQuery, agFiltersStr, agFilters, agFull>>
    /\ UNCHANGED notAg

\* The synthesis stream ended: the generator is exhausted.
AgSynthEnd ==
    /\ agPc = "synth"
    /\ Exhausted(agStream)
    /\ agPc' = "ended"
    /\ UNCHANGED <<agUser, agStream, agResp, agQuery, agFiltersStr, agFilters, agFull, agLog>>
    /\ UNCHANGED notAg

\* The pull after a last yield: the generator returns.
AgReturn ==
    /\ agPc = "return"
    /\ agPc' = "ended"
    /\ UNCHANGED <<agUser, agStream, agResp, agQuery, agFiltersStr, agFilters, agFull, agLog>>
    /\ UNCHANGED notAg

(***************************************************************************)
(* Specifications.                                                         *)
(***************************************************************************)
GwNext == GwReceive \/ GwEvent \/ GwAwait \/ GwEnd

\* One call of call_model_stream; nothing else runs.
GatewayInit == GwInit /\ IdxInit /\ AgInit /\ CallIdle

GatewaySpec == GatewayInit /\ [][GwNext]_vars

GwIdle ==
    /\ gwStream = <<>>
    /\ gwChunks = <<>>
    /\ gwBuffer = <<>>
    /\ gwOut = <<>>
    /\ gwPc = "done"
    /\ gwDoneSeen = FALSE
    /\ gwFamily = "openai"
    /\ gwFrames = <<>>

\* The values of root_path of each specification.
IndexRoots == {"proj", "big", "deep", "README.md"}

SearchRoots == {"proj", "./proj"}

\* One SemanticExplorer: builds of a small and of a large directory, with
\* cancellations, clears and deletions of files in any order.
IndexNext ==
    \/ \E b \in Builds, root \in IndexRoots : BuildStart(b, root)
    \/ \E b \in Builds : BuildScan(b)
    \/ \E b \in Builds : BuildLoop(b)
    \/ \E b \in Builds : BuildBatch(b)
    \/ CancelIndexing
    \/ ClearIndex
    \/ \E e \in Volatile : Vanish(e)

IndexInit == GwIdle /\ IdxInit /\ AgInit /\ CallIdle

IndexSpec == IndexInit /\ [][IndexNext]_vars

\* One SemanticExplorer: builds of one directory under two spellings of its
\* path while a file of it may be deleted, and searches of the store they leave.
SearchNext ==
    \/ \E b \in Builds, root \in SearchRoots : BuildStart(b, root)
    \/ \E b \in Builds : BuildScan(b)
    \/ \E b \in Builds : BuildLoop(b)
    \/ \E b \in Builds : BuildBatch(b)
    \/ Vanish(<<"proj", 7>>)
    \/ \E query \in Queries, n \in NResults, f \in Filters, validating \in BOOLEAN :
          DoSearch(query, n, f, validating)

SearchSpec == IndexInit /\ [][SearchNext]_vars

\* One turn of get_response_stream on an explorer that builds of "proj" fill
\* before or during the turn.
AgentNext ==
    \/ \E b \in Builds : BuildStart(b, "proj")
    \/ \E b \in Builds : BuildScan(b)
    \/ \E b \in Builds : BuildLoop(b)
    \/ \E b \in Builds : BuildBatch(b)
    \/ \E user_input \in UserInputs : AgStart(user_input)
    \/ \E stream \in PlanStreams : AgPlanCall(stream)
    \/ AgPlanChunk
    \/ AgPlanException
    \/ AgPlanEnd
    \/ AgFilters
    \/ AgExecuting
    \/ \E validating \in BOOLEAN : AgSearch(validating)
    \/ \E stream \in SynthStreams : AgSynthCall(stream)
    \/ AgSynthChunk
    \/ AgSynthException
    \/ AgSynthEnd
    \/ AgReturn

AgentSpec == IndexInit /\ [][AgentNext]_vars

\* The generators of two index_directory calls on one SemanticExplorer.
TwoBuilds == {1, 2}

\* One SemanticExplorer and two index_directory generators pulled in any
\* order, with cancellations.
ConcurrentNext ==
    \/ \E b \in TwoBuilds, root \in IndexRoots : BuildStart(b, root)
    \/ \E b \in TwoBuilds : BuildScan(b)
    \/ \E b \in TwoBuilds : BuildLoop(b)
    \/ \E b \in TwoBuilds : BuildBatch(b)
    \/ CancelIndexing

ConcurrentInit == GwIdle /\ IdxInitFor(TwoBuilds) /\ AgInit /\ CallIdle

ConcurrentSpec == ConcurrentInit /\ [][ConcurrentNext]_vars

\* One call of call_model_stream from its first line: every provider, model
\* name, override and environment, every outcome of the request.
CallNext ==
    \/ CallResolve
    \/ \E outcome \in {"ok", "http_error", "transport_failure"} : CallPost(outcome)
    \/ GwReceive
    \/ GwEvent
    \/ GwAwait
    \/ GwEnd
    \/ CallStreamFail
    \/ CallReturn

\* The streaming loop of each wire format on a body built from frames.
DecoderNext == GwReceive \/ GwEvent \/ CohereStep \/ HfStep \/ GwAwait \/ GwEnd

DecoderFrontInit == DecoderInit /\ IdxInit /\ AgInit /\ CallIdle

\* The four decoders over bodies that may end without a closing delimiter.
TailNext ==
    GwReceive \/ GwEvent \/ CohereStep \/ HfStep \/ GoogleStep \/ GwAwait \/ GwEnd

TailFrontInit == TailInit /\ IdxInit /\ AgInit /\ CallIdle

TailSpec == TailFrontInit /\ [][TailNext]_vars

DecoderSpec == DecoderFrontInit /\ [][DecoderNext]_vars

CallFrontInit == GwIdle /\ IdxInit /\ AgInit /\ CallInit

CallSpec == CallFrontInit /\ [][CallNext]_vars

(***************************************************************************)
(* Claims about the gateway.                                               *)
(***************************************************************************)
\* C1: for every response body and every byte offset at which it is split into
\* two chunks, the fragments emitted equal those emitted when the same bytes
\* arrive as one chunk.
C1_SplitIndependent ==
    gwPc = "done" => gwOut = StreamFragments(<<gwStream>>, <<>>, <<>>)

\* C2: once a data line with payload [DONE] has been decoded, no fragment is
\* emitted any more, whatever is buffered or still to arrive.
C2_NoFragmentAfterDone == [][gwDoneSeen => gwOut' = gwOut]_vars

\* C2's case: [DONE] was decoded while a complete event that carries content is
\* still in the buffer.
C2_Witness ==
    /\ gwDoneSeen
    /\ HasEvent(gwBuffer)
    /\ OpenAIEvent(FirstEvent(gwBuffer)).content # <<>>

(***************************************************************************)
(* Claims about the index.                                                 *)
(***************************************************************************)
\* C3: when the cancellation flag is set after the upsert of batch i and
\* before the upsert of batch i+1 (the build is past its first batch, at the
\* head of the loop or suspended at the yield of the next batch's status), the
\* build adds nothing more to the store.
C3_NoUpsertAfterCancel ==
    [][\A b \in Builds :
          (is_cancelled /\ bPc[b] \in {"loop", "batch"} /\ bI[b] >= batch_size
             /\ bPc'[b] # bPc[b])
          => store' = store]_vars

\* C4: after index_directory ran to natural completion twice over the same
\* unchanged directory tree, the store holds as many items as after the first
\* of the two runs.
C4_SameCountTwice ==
    baseline.runs = 2 => Cardinality(store) = baseline.count

\* A filter that uses only $contains on relative_path: one bare leaf, or a
\* $and list of such leaves.
ContainsOnly(f) ==
    IF "$and" \in DOMAIN f
    THEN /\ DOMAIN f = {"$and"}
         /\ Len(f["$and"]) > 0
         /\ \A j \in 1..Len(f["$and"]) :
               IsContainsCond(f["$and"][j]) /\ DOMAIN f["$and"][j] = {"relative_path"}
    ELSE IsContainsCond(f) /\ DOMAIN f = {"relative_path"}

\* The substrings such a filter gives.
GivenSubstrings(f) ==
    IF "$and" \in DOMAIN f
    THEN {f["$and"][j]["relative_path"]["$contains"] : j \in 1..Len(f["$and"])}
    ELSE {f["relative_path"]["$contains"]}

\* C5: every result of a search whose filter uses only $contains on
\* relative_path has a relative path that contains each substring the filter
\* gives.
C5_ResultsContainSubstring ==
    (srch.called /\ ~srch.raised /\ ContainsOnly(srch.filter)) =>
        \A j \in 1..Len(srch.result) : \A sub \in GivenSubstrings(srch.filter) :
            Contains(sub, srch.result[j].path)

\* The stored identities whose relative path contains sub, most similar first.
MatchesOf(st, query, sub) ==
    LET match(id) == id \in st /\ Contains(sub, Meta(id).relative_path)
    IN  SelectSeq(NearestFirst(query), match)

\* The stored identities among the k most similar whose relative path contains sub.
MatchesAmongNearest(st, query, sub, k) ==
    LET stored(id) == id \in st
        nearest == SelectSeq(NearestFirst(query), stored)
        match(id) == Contains(sub, Meta(id).relative_path)
    IN  SelectSeq(SubSeq(nearest, 1, Min2(k, Len(nearest))), match)

FirstN(seq, n) == SubSeq(seq, 1, Min2(n, Len(seq)))

\* The identities of the results of the last search, in order.
ResultIds == [j \in 1..Len(srch.result) |-> srch.result[j].full_path]

\* The substring the last search applied in process.
AppliedSubstring == PathContainsFilter(srch.filter).sub

\* C6 as stated: a search with a $contains-only filter and count n returns the
\* min(n, m) most similar of the m stored items whose relative path contains
\* the substring.
C6_RecallComplete ==
    (srch.called /\ ~srch.raised /\ ContainsOnly(srch.filter)) =>
        ResultIds = FirstN(MatchesOf(store, srch.query, AppliedSubstring), srch.n)

\* C6 amended: the search returns the first n matching items among the
\* min(5 n, count) most similar stored items; so recall is complete up to n
\* when the store holds at most 5 n items.
C6_RecallWithinOverFetch ==
    (srch.called /\ ~srch.raised /\ ContainsOnly(srch.filter)) =>
        /\ ResultIds = FirstN(MatchesAmongNearest(store, srch.query, AppliedSubstring,
                                                  OverFetch * srch.n), srch.n)
        /\ Cardinality(store) <= OverFetch * srch.n =>
              ResultIds = FirstN(MatchesOf(store, srch.query, AppliedSubstring), srch.n)

\* C6's case: a $contains-only search of a store within the over-fetch that
\* holds more items than asked for, some of them matching, some not.
C6_Witness ==
    /\ srch.called /\ ~srch.raised /\ ContainsOnly(srch.filter)
    /\ Cardinality(store) <= OverFetch * srch.n
    /\ Cardinality(store) > srch.n
    /\ Len(srch.result) = srch.n
    /\ Len(MatchesOf(store, srch.query, AppliedSubstring)) < Cardinality(store)
    /\ ResultIds # FirstN(SelectSeq(NearestFirst(srch.query), LAMBDA id : id \in store), srch.n)

ReadmePath == <<"R", "E", "A", "D", "M", "E", ".", "m", "d">>

LoginPath == <<"a", "u", "t", "h", "/", "l", "o", "g", "i", "n", ".", "p", "y">>

\* C7: after a tree with README.md (10 bytes) and auth/login.py (20000 bytes)
\* was indexed, a search with the filter $and[$contains ".py", size_bytes $gt
\* 10240] returns auth/login.py and not README.md, and every result satisfies
\* both conditions.
C7_ScenarioAppliesBoth ==
    (/\ srch.called
     /\ srch.filter = ScenarioFilter
     /\ \E root \in RootPaths : {<<root, 1>>, <<root, 5>>} \subseteq store) =>
        /\ ~srch.raised
        /\ \E j \in 1..Len(srch.result) : srch.result[j].path = LoginPath
        /\ \A j \in 1..Len(srch.result) :
              /\ srch.result[j].path # ReadmePath
              /\ Contains(DotPy, srch.result[j].path)
              /\ Meta(srch.result[j].full_path).size_bytes > 10240

(***************************************************************************)
(* Claims about the orchestrator.                                          *)
(***************************************************************************)
IsEmit(e, kind) == e.type = "emit" /\ e.kind = kind

\* The planning stream was consumed to its end without an error.
PlanningCompleted ==
    /\ agPc \notin {"new", "plan_call", "planning"}
    /\ \A k \in 1..Len(agLog) :
          ~IsEmit(agLog[k], "plan_error") /\ ~IsEmit(agLog[k], "plan_exception")

\* The planning response holds no <semantic_query>...</semantic_query> field.
NoQueryField ==
    ~\E i, j \in 1..Len(agResp) :
        i < j /\ agResp[i] = "<semantic_query>" /\ agResp[j] = "</semantic_query>"

\* C8: when the complete planning response holds no semantic_query field,
\* the query is the raw user input, also in the search call; the warning is
\* emitted before the 'Executing Search' emission and before the search call;
\* and the turn does not end before the search is called.
C8_RawInputOnMissingQuery ==
    (PlanningCompleted /\ NoQueryField) =>
        /\ agQuery = agUser
        /\ \A k \in 1..Len(agLog) : agLog[k].type = "search" => agLog[k].text = agUser
        /\ \E w \in 1..Len(agLog) :
              /\ IsEmit(agLog[w], "warn_query")
              /\ \A k \in 1..Len(agLog) :
                    (IsEmit(agLog[k], "executing") \/ agLog[k].type = "search") => w < k
        /\ agPc \in {"return", "ended", "raised"} =>
              \E k \in 1..Len(agLog) : agLog[k].type = "search"

\* C8's case: a planning response with an opening tag and no closing tag, and
\* the search it led to was called and found something.
C8_Witness ==
    /\ PlanningCompleted /\ NoQueryField
    /\ \E i \in 1..Len(agResp) : agResp[i] = "<semantic_query>"
    /\ \E k \in 1..Len(agLog) : agLog[k].type = "search" /\ agLog[k].count > 0

\* C9: a search that returned zero results is followed by exactly one
\* emission, the message that nothing was found, and by nothing else: no
\* gateway call is made and the generator returns.
C9_ZeroResultsEndTurn ==
    \A k \in 1..Len(agLog) :
        (agLog[k].type = "search" /\ agLog[k].kind = "returned" /\ agLog[k].count = 0) =>
            /\ Len(agLog) = k + 1
            /\ IsEmit(agLog[k + 1], "no_results")
            /\ agPc \in {"return", "ended"}

\* C9's case: a search of a store that is not empty returned nothing and the
\* turn is over.
C9_Witness ==
    /\ store # {}
    /\ agPc = "ended"
    /\ \E k \in 1..Len(agLog) :
          agLog[k].type = "search" /\ agLog[k].kind = "returned" /\ agLog[k].count = 0

\* C10: a chunk that starts with "Error:", received in Planning or in
\* Synthesizing, is followed by the emission that carries its text and by
\* nothing else: no search, no gateway call, no snapshot; the generator returns.
C10_GatewayErrorEndsTurn ==
    \A k \in 1..Len(agLog) :
        (agLog[k].type = "recv" /\ Len(agLog[k].text) > 0 /\ agLog[k].text[1] = "Error:") =>
            /\ Len(agLog) = k + 1
            /\ IsEmit(agLog[k + 1],
                      IF agLog[k].kind = "planning" THEN "plan_error" ELSE "synth_error")
            /\ agLog[k + 1].text = agLog[k].text
            /\ agPc \in {"return", "ended"}

\* C10's case: an error chunk arrived in Synthesizing after a snapshot had been
\* emitted, and the turn is over.
C10_Witness ==
    /\ agPc = "ended"
    /\ \E k \in 1..Len(agLog) : IsEmit(agLog[k], "snapshot")
    /\ IsEmit(agLog[Len(agLog)], "synth_error")

\* The filter documents that are valid structured filter data.
ValidFilterDocs == {<<JsonEmpty>>, <<JsonDotPy>>, <<JsonDotRs>>, <<JsonScenario>>}

\* The filters field was present with a body that is no valid filter, and the
\* generator is past the parsing of it.
InvalidFilterParsed ==
    /\ PlanningCompleted
    /\ agPc # "filters"
    /\ agFiltersStr.found
    /\ agFiltersStr.value # <<>>
    /\ agFiltersStr.value \notin ValidFilterDocs

\* C11: when the filters field is present and its body is no valid structured
\* filter data, the filter is dropped, the warning is emitted, search is called
\* with the empty filter, and search does not raise.
C11_InvalidFilterDropped ==
    InvalidFilterParsed =>
        /\ agFilters = NoFilter
        /\ \E w \in 1..Len(agLog) : IsEmit(agLog[w], "warn_filters")
        /\ \A k \in 1..Len(agLog) :
              agLog[k].type = "search" =>
                  agLog[k].filters = NoFilter /\ agLog[k].kind = "returned"

(***************************************************************************)
(* Claims about the call front.                                            *)
(***************************************************************************)
\* C12: once call_model_stream has yielded an 'Error:' item (missing
\* credential, unknown provider, unknown model, HTTP error status, transport
\* failure), it yields nothing more and sends no request any more.
C12_ErrorIsTerminal ==
    [][cErr # <<>> => (cErr' = cErr /\ gwOut' = gwOut /\ cReqs' = cReqs)]_vars

\* A transport failure after a fragment was yielded: the error is the last item.
C12_Witness ==
    /\ cPc = "returned"
    /\ gwOut # <<>>
    /\ cErr = <<"transport_failure">>

\* The three resolutions of the arguments of the call, from its inputs.
CredentialOf == _get_api_key(Lower(cProvider), cOverride, cEnv)

EndpointKnown == ~FalsyName(BaseUrl(cProvider))

ModelRegistered == ~FalsyName(get_model_id_from_display_name(Lower(cProvider), cModel))

\* C13: one call sends at most one request, and none when credential,
\* provider or model resolution fails.
C13_AtMostOneRequest ==
    /\ cReqs <= 1
    /\ (FalsyKey(CredentialOf) \/ ~EndpointKnown \/ ~ModelRegistered) => cReqs = 0

\* A call that sent its request and ended with the HTTP error.
C13_Witness ==
    /\ cPc = "returned"
    /\ cReqs = 1
    /\ cErr = <<"http_error">>

\* The environment variable of the provider, when it has one.
ProviderVariable ==
    IF Upper(cProvider) \in DOMAIN API_KEYS_ENV_VARS
    THEN Getenv(cEnv, API_KEYS_ENV_VARS[Upper(cProvider)])
    ELSE Absent

\* C14: the credential is the stripped override when the override is not
\* blank; otherwise the stripped environment variable of the provider when it
\* is not blank; otherwise, for huggingface only, the stripped HF_TOKEN when it
\* is not blank; otherwise it is absent and the call ends with the
\* missing-credential error, without a request.
C14_CredentialPriority ==
    cPc # "start" =>
        IF NonBlank(cOverride) THEN cKey = Present(Strip(cOverride.value))
        ELSE IF NonBlank(ProviderVariable) THEN cKey = Present(Strip(ProviderVariable.value))
        ELSE IF Lower(cProvider) = "huggingface" /\ NonBlank(Getenv(cEnv, "HF_TOKEN"))
             THEN cKey = Present(Strip(Getenv(cEnv, "HF_TOKEN").value))
        ELSE /\ cKey = Absent
             /\ cErr = <<"missing_credential">>
             /\ cPc = "returned"
             /\ cReqs = 0

\* Override and environment variable both set: the override was taken.
C14_Witness ==
    /\ cPc # "start"
    /\ cOverride = Present(<<32, 107, 32>>)
    /\ cEnv["GROQ_API_KEY"] = Present(<<103>>)
    /\ Lower(cProvider) = "groq"
    /\ cKey = Present(<<107>>)

\* C15 as stated: the checks run in the order credential, model identifier,
\* provider endpoint: with a credential, an unregistered model name gives the
\* unknown-model error, and the unknown-provider error is reported only when
\* the model resolved.
C15_ModelBeforeProvider ==
    cPc # "start" =>
        /\ (~FalsyKey(cKey) /\ ~ModelRegistered) => cErr = <<"unknown_model">>
        /\ cErr = <<"unknown_provider">> => ModelRegistered

\* C15, amended: the checks run in the order credential, provider endpoint,
\* model identifier, and the first that fails is reported: the unknown-model
\* error is reported only when credential and endpoint resolved.
C15_ProviderBeforeModel ==
    cPc # "start" =>
        IF FalsyKey(cKey) THEN cErr = <<"missing_credential">>
        ELSE IF ~EndpointKnown THEN cErr = <<"unknown_provider">>
        ELSE IF ~ModelRegistered THEN cErr = <<"unknown_model">>
        ELSE \A k \in 1..Len(cErr) :
                cErr[k] \notin {"missing_credential", "unknown_provider", "unknown_model"}

\* A credential, a provider without endpoint and a model name that is not
\* registered: the unknown-provider error.
C15_Witness ==
    /\ cPc = "returned"
    /\ cProvider = "foo"
    /\ ~FalsyKey(cKey)
    /\ ~ModelRegistered
    /\ cErr = <<"unknown_provider">>

(***************************************************************************)
(* Claims about search, clear and build, second part.                      *)
(***************************************************************************)
\* C16: search never returns more than n_results results, whatever the
\* store, the query and the filter.
C16_AtMostNResults ==
    srch.called => Len(srch.result) <= srch.n

\* A store with more items than asked for: exactly n_results are returned.
C16_Witness ==
    /\ srch.called
    /\ srch.filter = NoFilter
    /\ srch.count > srch.n
    /\ Len(srch.result) = srch.n

\* C17: on an empty store search returns the empty list without embedding
\* the query and without querying the store, whatever the query and the filter.
C17_EmptyStoreReturnsAtOnce ==
    (srch.called /\ srch.count = 0) =>
        /\ srch.result = <<>>
        /\ ~srch.raised
        /\ ~srch.encoded
        /\ ~srch.queried

\* A search of the empty store with a filter the store would reject.
C17_Witness ==
    /\ srch.called
    /\ srch.count = 0
    /\ srch.filter = ScenarioFilter
    /\ srch.result = <<>>

\* C18: when clear_index has returned and no build is running, the store
\* holds nothing and the value returned is the number of identities the store
\* held before the call.
C18_ClearEmptiesAndCounts ==
    (clr.called /\ \A b \in Builds : bPc[b] = "idle") =>
        /\ Cardinality(store) = 0
        /\ clr.returned = clr.before

\* A clear of a store with entries, after the build that stored them ended.
C18_Witness ==
    /\ clr.called
    /\ \A b \in Builds : bPc[b] = "idle"
    /\ clr.before > 0
    /\ clr.returned = clr.before
    /\ store = {}

\* C19: no step of index_directory removes an identity from the store: but
\* for clear_index, every step leaves a superset of the identities stored
\* before it, so the store at every step of a build holds all that was stored
\* when the build started.
C19_BuildNeverRemoves ==
    [][clr'.called \/ store \subseteq store']_vars

\* A second build has completed after a file of the first was deleted, and
\* the identity of the deleted file is still stored.
C19_Witness ==
    /\ runs = 2
    /\ \A b \in Builds : bPc[b] = "idle" /\ bClean[b]
    /\ \E b \in Builds : bOut[b] # <<>> /\ bOut[b][Len(bOut[b])].kind = "complete"
    /\ \E id \in store : <<TreeOf(id[1]), id[2]>> \in fsGone

\* The values of root_path that name no directory.
NotDirectories == {"README.md"}

\* C20: a build whose root_path is not a directory yields exactly one status,
\* the error status, and stops: its list of paths stays empty, its generator
\* is at its end, and the step that starts it leaves the store as it was.
C20_NotADirectoryStops ==
    [][\A b \in Builds :
          bRoot'[b] \in NotDirectories =>
              /\ bOut'[b] = <<Status("error", 0, 0, 0)>>
              /\ bPaths'[b] = <<>>
              /\ bPc'[b] = "idle"
              /\ runs' # runs => store' = store]_vars

\* A build of a path that is no directory, started on a store with entries.
C20_Witness ==
    /\ \E b \in Builds :
          /\ bRoot[b] \in NotDirectories
          /\ bOut[b] = <<Status("error", 0, 0, 0)>>
          /\ bPc[b] = "idle"
    /\ store # {}

\* The status a build has yielded last.
LastStatus(b) == bOut[b][Len(bOut[b])]

\* C21: every build that was in progress when cancel_indexing was called ends
\* with the cancelled status, whatever the other builds of the explorer do
\* before or after the call.
C21_CancelObservedByAll ==
    \A b \in DOMAIN bPc :
        (b \in cancelSeen /\ bPc[b] = "idle") =>
            LastStatus(b).kind \in {"cancelled", "cancelled_scan"}

(***************************************************************************)
(* Claims about the orchestrator, second part.                             *)
(***************************************************************************)
\* The concatenation of the fragments (the chunks that are no 'Error:' item)
\* received in Synthesizing among the first k entries of the log.
RECURSIVE AnswerUpTo(_)
AnswerUpTo(k) ==
    IF k = 0 THEN <<>>
    ELSE IF /\ agLog[k].type = "recv"
            /\ agLog[k].kind = "synthesizing"
            /\ ~(Len(agLog[k].text) > 0 /\ agLog[k].text[1] = "Error:")
         THEN AnswerUpTo(k - 1) \o agLog[k].text
         ELSE AnswerUpTo(k - 1)

\* C22: in Synthesizing every received fragment is followed at once by an
\* emission that is a complete snapshot: the plan recap (query and filters of
\* the search plan) and the concatenation, in order, of all the fragments
\* received so far; and every snapshot emitted follows a fragment in this way.
C22_SnapshotIsCumulative ==
    /\ \A k \in 1..Len(agLog) :
          (/\ agLog[k].type = "recv"
           /\ agLog[k].kind = "synthesizing"
           /\ ~(Len(agLog[k].text) > 0 /\ agLog[k].text[1] = "Error:")) =>
              /\ k < Len(agLog)
              /\ IsEmit(agLog[k + 1], "snapshot")
              /\ agLog[k + 1].query = agQuery
              /\ agLog[k + 1].filters = agFilters
              /\ agLog[k + 1].text = AnswerUpTo(k)
    /\ \A k \in 1..Len(agLog) :
          IsEmit(agLog[k], "snapshot") =>
              k > 1 /\ agLog[k - 1].type = "recv" /\ agLog[k - 1].kind = "synthesizing"

\* Two fragments were received: the second snapshot holds both.
C22_Witness ==
    /\ agPc = "ended"
    /\ Len(agLog) > 3
    /\ IsEmit(agLog[Len(agLog)], "snapshot")
    /\ IsEmit(agLog[Len(agLog) - 2], "snapshot")
    /\ agLog[Len(agLog)].text = agLog[Len(agLog) - 2].text \o agLog[Len(agLog) - 1].text
    /\ agLog[Len(agLog) - 2].text # <<>>

\* The positions of the log that hold a gateway call of a phase, and those
\* that hold a search call.
CallsOf(phase) == {k \in 1..Len(agLog) : agLog[k].type = "call" /\ agLog[k].kind = phase}

SearchCalls == {k \in 1..Len(agLog) : agLog[k].type = "search"}

\* C23: in one turn the planning call is made at most once and its stream is
\* consumed to the end before search is called; search is called at most once,
\* after the planning call and after every chunk of it; the synthesizing call
\* is made at most once, and only after a search that returned a result that
\* is not empty.
C23_PhasesInSequence ==
    /\ Cardinality(CallsOf("planning")) <= 1
    /\ Cardinality(SearchCalls) <= 1
    /\ Cardinality(CallsOf("synthesizing")) <= 1
    /\ agPc \in {"filters", "executing", "search"} => agStream = <<>>
    /\ \A k \in SearchCalls :
          /\ \E c \in CallsOf("planning") : c < k
          /\ \A j \in 1..Len(agLog) :
                (agLog[j].type = "recv" /\ agLog[j].kind = "planning") => j < k
    /\ \A c \in CallsOf("synthesizing") :
          \E k \in SearchCalls :
              k < c /\ agLog[k].kind = "returned" /\ agLog[k].count > 0

\* A turn that went through the three phases to its end.
C23_Witness ==
    /\ agPc = "ended"
    /\ Cardinality(CallsOf("planning")) = 1
    /\ Cardinality(SearchCalls) = 1
    /\ Cardinality(CallsOf("synthesizing")) = 1
    /\ IsEmit(agLog[Len(agLog)], "snapshot")

(***************************************************************************)
(* Claims about the decoders.                                              *)
(***************************************************************************)
\* The fragments of the text frames among the first k frames, in order.
RECURSIVE TextsOf(_, _)
TextsOf(frames, k) ==
    IF k = 0 THEN <<>>
    ELSE IF frames[k] \in {"text_a", "text_b"}
         THEN Append(TextsOf(frames, k - 1), FrameText(frames[k]))
         ELSE TextsOf(frames, k - 1)

\* The number of frames before the first frame of a set, or all of them.
FramesBefore(frames, enders) ==
    LET at == {k \in 1..Len(frames) : frames[k] \in enders}
    IN  IF at = {} THEN Len(frames) ELSE MinOf(at) - 1

\* C24: in each of the three decoders a frame whose payload fails to decode
\* as JSON is skipped: on a body made of text frames, such frames and the
\* frame that ends the stream, the items yielded are exactly the fragments of
\* the text frames before the end frame, in order, and no Error item.
C24_BadFrameSkipped ==
    (gwPc = "done" /\ \A k \in 1..Len(gwFrames) : gwFrames[k] \in {"text_a", "text_b", "bad", "end"}) =>
        gwOut = TextsOf(gwFrames, FramesBefore(gwFrames, {"end"}))

\* A frame that does not decode, then a text frame, in the cohere decoder.
C24_Witness ==
    /\ gwPc = "done"
    /\ gwFamily = "cohere"
    /\ gwFrames = <<"bad", "text_b">>
    /\ Len(gwChunks) = 0
    /\ gwOut = <<FrameText("text_b")>>

\* C25: in the cohere decoder every event whose type line is stream-end ends
\* the stream: the items yielded are the fragments of the text frames before
\* the first such event and nothing else, whatever its data line holds.
C25_StreamEndAlwaysEnds ==
    (gwPc = "done" /\ gwFamily = "cohere") =>
        gwOut = TextsOf(gwFrames,
                        FramesBefore(gwFrames, {"end", "end_nodata", "end_bad", "end_number"}))

(***************************************************************************)
(* Claims about the build, third part.                                     *)
(***************************************************************************)
\* C26: when the status a build has yielded last is the progress status of a
\* batch, 'k / total', each of the first k paths of the build is stored, or
\* its file has vanished.
C26_StatusAfterUpsert ==
    \A b \in DOMAIN bPc :
        (bOut[b] # <<>> /\ LastStatus(b).kind = "batch") =>
            \A j \in 1..LastStatus(b).done :
                \/ bPaths[b][j] \in store
                \/ <<TreeOf(bPaths[b][j][1]), bPaths[b][j][2]>> \in fsGone

\* The kinds of the statuses that end a run on a valid directory.
FinalKinds == {"complete", "cancelled", "cancelled_scan"}

NoiseSet ==
    { <<".", "g", "i", "t">>,
      <<"_", "_", "p", "y", "c", "a", "c", "h", "e", "_", "_">>,
      <<".", "v", "s", "c", "o", "d", "e">>,
      <<"n", "o", "d", "e", "_", "m", "o", "d", "u", "l", "e", "s">>,
      <<".", "i", "d", "e", "a">>,
      <<"c", "h", "r", "o", "m", "a", "_", "d", "b">> }

\* Whether entry k of a tree lies inside a directory of the noise set, at any
\* depth below the root.
RECURSIVE InsideNoise(_, _)
InsideNoise(tree, k) ==
    LET d == Entry(tree, k).parent
    IN  /\ d # 0
        /\ \/ Entry(tree, d).is_dir /\ Entry(tree, d).name \in NoiseSet
           \/ InsideNoise(tree, d)

\* C28: no path a build has enumerated, and no identity stored, lies inside
\* a directory whose name is in the noise set, at any depth.
C28_NoisePruned ==
    /\ \A b \in Builds : \A j \in 1..Len(bPaths[b]) :
          ~InsideNoise(TreeOf(bPaths[b][j][1]), bPaths[b][j][2])
    /\ \A id \in store : ~InsideNoise(TreeOf(id[1]), id[2])

\* A build of the tree with nested noise directories has completed: the
\* file beside them and the file named .git are stored.
C28_Witness ==
    /\ \E b \in Builds :
          bPc[b] = "idle" /\ bRoot[b] = "deep" /\ bOut[b] # <<>>
             /\ LastStatus(b).kind = "complete"
    /\ <<"deep", 5>> \in store
    /\ <<"deep", 10>> \in store
    /\ <<"deep", 1>> \in store

\* C29: an entry has one identity however the root it was reached from is
\* spelled: two stored identities of the same entry of the same tree are
\* the same identity, so the store holds one item per entry.
C29_OneIdentityPerEntry ==
    \A id1 \in store, id2 \in store :
        (TreeOf(id1[1]) = TreeOf(id2[1]) /\ id1[2] = id2[2]) => id1 = id2

\* Whether a filter document has a size_bytes condition, bare or in its $and.
HasSizeCondition(f) ==
    \/ "size_bytes" \in DOMAIN f
    \/ /\ "$and" \in DOMAIN f
       /\ \E j \in 1..Len(f["$and"]) : "size_bytes" \in DOMAIN f["$and"][j]

\* C30: a stored item with is_dir true has no size_bytes, and a search whose
\* filter has a size_bytes condition returns no directory.
C30_DirectoriesCarryNoSize ==
    /\ \A id \in store : Meta(id).is_dir => "size_bytes" \notin DOMAIN Meta(id)
    /\ (srch.called /\ ~srch.raised /\ HasSizeCondition(srch.filter)) =>
          \A j \in 1..Len(srch.result) : ~srch.result[j].is_dir

(***************************************************************************)
(* Claims about the order of results and the split of the filter.          *)
(***************************************************************************)
\* The candidates the store returned to the last search, in the store's order.
CandidatesOfLast ==
    StoreQuery(store, srch.query, Min2(srch.n * OverFetch, Cardinality(store)),
               DbFilters(srch.filter))

\* Whether a candidate passes the substring test of the last search.
PassesApplied(id) ==
    LET pcf == PathContainsFilter(srch.filter)
    IN  (pcf.set /\ pcf.sub # <<>>) => Contains(pcf.sub, Meta(id).relative_path)

\* C31: the result of search is the store's candidate list, in the store's
\* order, without the candidates failing the in-process substring test, cut
\* to the first n_results; similarities never increase along it and each is
\* 1 minus the candidate's distance (in hundredths: 100 minus it).
C31_StoreOrderKept ==
    (srch.called /\ ~srch.raised /\ srch.count > 0) =>
        /\ ResultIds = FirstN(SelectSeq(CandidatesOfLast, PassesApplied), srch.n)
        /\ \A j \in 1..Len(srch.result) :
              srch.result[j].similarity
                 = 100 - Distance(srch.query, srch.result[j].full_path)
        /\ \A j \in 1..(Len(srch.result) - 1) :
              srch.result[j].similarity >= srch.result[j + 1].similarity

\* A search returned two results of different similarity, with a candidate
\* that failed the substring test ranked between them.
C31_Witness ==
    /\ srch.called /\ ~srch.raised /\ srch.count > 0
    /\ Len(srch.result) = 2
    /\ srch.result[1].similarity > srch.result[2].similarity
    /\ \E i \in 1..Len(CandidatesOfLast) :
          /\ ~PassesApplied(CandidatesOfLast[i])
          /\ Distance(srch.query, CandidatesOfLast[i])
                < Distance(srch.query, srch.result[2].full_path)
          /\ Distance(srch.query, CandidatesOfLast[i])
                > Distance(srch.query, srch.result[1].full_path)

\* The leaves of a filter document: its own fields, or the conditions of
\* its $and list.
LeavesOf(f) ==
    IF "$and" \in DOMAIN f THEN {f["$and"][j] : j \in 1..Len(f["$and"])} ELSE {f}

\* The substrings of the $contains leaves on relative_path of a document.
ContainsSubstrings(f) ==
    {l["relative_path"]["$contains"] : l \in {c \in LeavesOf(f) : IsContainsCond(c)}}

\* The values of its is_dir leaves and the conditions of its size_bytes leaves.
IsDirValues(f) ==
    {l["is_dir"] : l \in {c \in LeavesOf(f) : "is_dir" \in DOMAIN c}}

SizeConditions(f) ==
    {l["size_bytes"] : l \in {c \in LeavesOf(f) : "size_bytes" \in DOMAIN c}}

\* The first two parts of C32: the predicate handed to the store has no
\* $contains leaf and has every is_dir and size_bytes leaf of the input.
SplitKeepsNative(f) ==
    /\ ContainsSubstrings(DbFilters(f)) = {}
    /\ IsDirValues(DbFilters(f)) = IsDirValues(f)
    /\ SizeConditions(DbFilters(f)) = SizeConditions(f)

\* C32: for every filter of the grammar, the predicate handed to the store
\* has no $contains leaf on relative_path and has every is_dir and size_bytes
\* leaf of the input unchanged, and every $contains leaf is applied in
\* process: each result's path contains its substring.
C32_SplitCompleteAndSound ==
    (srch.called /\ srch.count > 0) =>
        /\ SplitKeepsNative(srch.filter)
        /\ ~srch.raised =>
              \A j \in 1..Len(srch.result) : \A sub \in ContainsSubstrings(srch.filter) :
                  Contains(sub, srch.result[j].path)

\* The store-side half of C32 alone, for every filter searched with.
C32_StoreSideHolds ==
    srch.called => SplitKeepsNative(srch.filter)

(***************************************************************************)
(* Claims about the end of a stream.                                       *)
(***************************************************************************)
\* Whether the next event of the buffer holds a [DONE] data line.
NextEventHasDone ==
    /\ gwPc = "events" /\ gwFamily = "openai" /\ HasEvent(gwBuffer)
    /\ Strip(FirstEvent(gwBuffer)) # <<>>
    /\ ReachesDone(SplitLines(FirstEvent(gwBuffer)), 1)

\* C33: decoding an event that holds a [DONE] data line emits nothing,
\* whatever content its earlier data lines carry.
C33_ContentBeforeDoneDropped ==
    [][NextEventHasDone => gwOut' = gwOut]_vars

\* A stream of one event, a data line with content "a" and then the [DONE]
\* line, was decoded to its end and nothing was emitted.
C33_Witness ==
    /\ gwStream = DataLine(<<97>>) \o <<10>> \o DataPrefix \o DoneToken \o <<10, 10>>
    /\ gwPc = "done"
    /\ gwDoneSeen
    /\ gwBuffer = <<>>
    /\ gwOut = <<>>

\* Whether the body ends short of the delimiter that closes its last frame.
Unterminated == gwStream # EncodeFrames(gwFamily, gwFrames)

\* C34: in each of the four decoders, when the response ends without the
\* closing delimiter of its last frame, that frame is never decoded: on a
\* body of text frames and frames that do not decode, the items yielded are
\* the fragments of the text frames before the last frame, and what is left
\* of the body stays in the buffer.
C34_TailNeverDecoded ==
    (/\ gwPc = "done"
     /\ Unterminated
     /\ \A k \in 1..Len(gwFrames) : gwFrames[k] \in {"text_a", "text_b", "bad"}) =>
        /\ gwOut = TextsOf(gwFrames, Len(gwFrames) - 1)
        /\ Strip(gwBuffer) # <<>>

\* A body of two text frames, the second without its closing newline, was
\* received to its end by the google decoder: only the first text was yielded.
C34_Witness ==
    /\ gwPc = "done"
    /\ gwFamily = "google"
    /\ Unterminated
    /\ gwFrames = <<"text_b", "text_a">>
    /\ gwChunks = <<>>
    /\ gwOut = <<FrameText("text_b")>>

(***************************************************************************)
(* Claims about the cancellation flag at the start of a build.             *)
(***************************************************************************)
\* C35: the first pull of index_directory resets the flag, whether root_path
\* is a directory or not, so a cancel_indexing call made before that pull
\* does not cancel the build: a build in progress that no cancel_indexing
\* call was made during runs with the flag unset, and ends with the
\* completion status.
C35_FirstPullResetsFlag ==
    /\ [][runs' # runs => ~is_cancelled']_vars
    /\ [](\A b \in DOMAIN bPc :
             /\ (bPc[b] # "idle" /\ b \notin cancelSeen) => ~is_cancelled
             /\ (/\ bPc[b] = "idle" /\ b \notin cancelSeen /\ bOut[b] # <<>>
                 /\ IsDirRoot(bRoot[b])) => LastStatus(b).kind = "complete")

\* cancel_indexing was called while build 2 was scanning an empty store and
\* build 1 had not started; build 2 ended cancelled; build 1, started with
\* the flag still set, ran to completion and filled the store.
C35_Witness ==
    /\ bPc[2] = "idle" /\ 2 \in cancelSeen
    /\ LastStatus(2) = Status("cancelled_scan", 0, 0, 0)
    /\ bPc[1] = "idle" /\ 1 \notin cancelSeen
    /\ bOut[1] # <<>>
    /\ LastStatus(1).kind = "complete"
    /\ LastStatus(1).count > 0
    /\ ~is_cancelled

(***************************************************************************)
(* Claims about several $contains leaves and about the 'Error:' prefix.    *)
(***************************************************************************)
\* The positions of the $contains leaves on relative_path in a $and list.
ContainsPositions(f) ==
    IF "$and" \in DOMAIN f
    THEN {j \in 1..Len(f["$and"]) : IsContainsCond(f["$and"][j])}
    ELSE {}

\* The substring of the last of them.
LastSubstring(f) == f["$and"][MaxOf(ContainsPositions(f))]["relative_path"]["$contains"]

\* C36: when the $and list of a filter holds several $contains leaves on
\* relative_path, none of them is left in the predicate handed to the store,
\* and the results are the store's candidates whose path contains the
\* substring of the last leaf, cut to n_results: no other leaf is applied.
C36_OnlyLastContainsApplied ==
    (/\ srch.called /\ ~srch.raised /\ srch.count > 0
     /\ Cardinality(ContainsPositions(srch.filter)) > 1) =>
        /\ ContainsSubstrings(DbFilters(srch.filter)) = {}
        /\ ResultIds =
              FirstN(SelectSeq(CandidatesOfLast,
                               LAMBDA id : Contains(LastSubstring(srch.filter),
                                                    Meta(id).relative_path)),
                     srch.n)

\* A search with the leaves 'auth' and '.py' returned a path without 'auth'.
C36_Witness ==
    /\ srch.called /\ ~srch.raised /\ srch.count > 0
    /\ srch.filter = AndOf(<<ContainsLeaf(Auth), ContainsLeaf(DotPy)>>)
    /\ \E j \in 1..Len(srch.result) :
          /\ ~Contains(Auth, srch.result[j].path)
          /\ Contains(DotPy, srch.result[j].path)

\* Whether a received chunk begins with 'Error:'.
HasErrorPrefix(e) == Len(e.text) > 0 /\ e.text[1] = "Error:"

IsErrorEmit(e) == IsEmit(e, "plan_error") \/ IsEmit(e, "synth_error")

\* C37: a chunk received from the gateway ends the turn as a gateway error
\* exactly when it begins with 'Error:', in Planning and in Synthesizing,
\* whether the gateway or the model wrote it; and the item of every error
\* path of call_model_stream begins with 'Error:'.
C37_ErrorPrefixOnly ==
    /\ \A k \in 1..Len(agLog) :
          agLog[k].type = "recv" =>
             IF HasErrorPrefix(agLog[k])
                THEN /\ Len(agLog) = k + 1
                     /\ IsEmit(agLog[k + 1],
                               IF agLog[k].kind = "planning" THEN "plan_error"
                               ELSE "synth_error")
                     /\ agPc \in {"return", "ended"}
                ELSE k < Len(agLog) => ~IsErrorEmit(agLog[k + 1])
    /\ \A k \in 1..Len(agLog) :
          IsErrorEmit(agLog[k]) =>
             k > 1 /\ agLog[k - 1].type = "recv" /\ HasErrorPrefix(agLog[k - 1])
    /\ \A kind \in GatewayErrors : GatewayItem(kind)[1] = "Error:"

\* Text of the model that begins with 'Error:' arrived in Synthesizing after
\* a snapshot, and the turn ended as a gateway error.
C37_Witness ==
    /\ agPc = "ended"
    /\ Len(agLog) > 2
    /\ IsEmit(agLog[Len(agLog)], "synth_error")
    /\ agLog[Len(agLog) - 1].text = ModelOutputError
    /\ \A kind \in GatewayErrors : ModelOutputError # GatewayItem(kind)
    /\ \E k \in 1..Len(agLog) : IsEmit(agLog[k], "snapshot")

====
